---- MODULE Spec2Model ----
(***************************************************************************)
(* A model of rehapt (REST HTTP API Test): the engine's variable store,   *)
(* the shortcut patterns, the comparator registry, the recursive compare  *)
(* and the Test orchestration.                                             *)
(*                                                                         *)
(* Go strings are sequences of one-character strings, so that the token   *)
(* patterns are matched character by character.  A Go value is a record   *)
(* carrying its reflect kind and its type name.  An error message is a    *)
(* sequence of segments, one per format string, NL standing for "\n".     *)
(* A map has no iteration order in Go: every operator that ranges over a  *)
(* map returns the set of the outcomes of all visiting orders.            *)
(***************************************************************************)
EXTENDS Integers, Sequences, FiniteSets

VARIABLES r, last, steps

vars == <<r, last, steps>>

(***************************************************************************)
(* Bounds of the model.                                                    *)
(***************************************************************************)
\* the operations made on one engine
MaxSteps == 2

MaxInt == 2

MaxLen == 2

\* the frames of loadVarCompare the stack holds
MaxFrames == 3

(***************************************************************************)
(* Characters and strings.                                                 *)
(***************************************************************************)
Lower == {"a","b","c","d","e","f","g","h","i","j","k","l","m",
          "n","o","p","q","r","s","t","u","v","w","x","y","z"}

Upper == {"A","B","C","D","E","F","G","H","I","J","K","L","M",
          "N","O","P","Q","R","S","T","U","V","W","X","Y","Z"}

Digits == <<"0","1","2","3","4","5","6","7","8","9">>

DigitSet == {Digits[i] : i \in 1..10}

\* the character class [a-zA-Z0-9] of the three patterns
Alnum == Lower \cup Upper \cup DigitSet

AllAlnum(s) == \A i \in 1..Len(s) : s[i] \in Alnum

HasPrefixAt(s, p, pre) ==
  /\ p + Len(pre) - 1 <= Len(s)
  /\ \A i \in 1..Len(pre) : s[p + i - 1] = pre[i]

\* whether sub occurs in s: what a metacharacter-free regexp matches
Contains(s, sub) == \E p \in 1..(Len(s) + 1) : HasPrefixAt(s, p, sub)

(***************************************************************************)
(* Go values.                                                              *)
(***************************************************************************)
Nil == [kind |-> "nil", type |-> "nil"]

IsNil(v) == v.kind = "nil"

Str(s) == [kind |-> "string", type |-> "string", s |-> s]

Any == [kind |-> "string", type |-> "any", s |-> <<"{","A","n","y","}">>]

StoreVar(name) == [kind |-> "string", type |-> "StoreVar", s |-> name]

LoadVar(name) == [kind |-> "string", type |-> "LoadVar", s |-> name]

Regexp(pattern) == [kind |-> "string", type |-> "Regexp", s |-> pattern]

GoBool(b) == [kind |-> "bool", type |-> "bool", b |-> b]

GoInt(n) == [kind |-> "int", type |-> "int", n |-> n]

GoInt64(n) == [kind |-> "int64", type |-> "int64", n |-> n]

\* an unsigned integer holds its 64 bits read as a signed number, which is what
\* the conversions between int64 and uint64 keep: GoUint64(-1) is 2^64 - 1
GoUint(n) == [kind |-> "uint", type |-> "uint", n |-> n]

GoUint64(n) == [kind |-> "uint64", type |-> "uint64", n |-> n]

\* a reflect.Kind or a reflect.Type as the argument of a message
KindOf(v) == [kind |-> "uint", type |-> "reflect.Kind", name |-> v.kind]

TypeOf(v) == [kind |-> "ptr", type |-> "reflect.Type", name |-> v.type]

KeyTypeOf(v) == [kind |-> "ptr", type |-> "reflect.Type", name |-> v.key]

\* a float holds its value in halves: GoFloat64(3) is 1.5
GoFloat64(h) == [kind |-> "float64", type |-> "float64", h |-> h]

S(items) == [kind |-> "slice", type |-> "S", items |-> items]

UnsortedS(items) == [kind |-> "slice", type |-> "UnsortedS", items |-> items]

\* a decoded JSON array
Slice(items) == [kind |-> "slice", type |-> "[]interface {}", items |-> items]

M(m) == [kind |-> "map", type |-> "M", key |-> "string", m |-> m]

PartialM(m) == [kind |-> "map", type |-> "PartialM", key |-> "string", m |-> m]

\* a decoded JSON object
Map(m) == [kind |-> "map", type |-> "map[string]interface {}", key |-> "string", m |-> m]

\* a map keyed by int, its keys written in base 10
IntMap(m) == [kind |-> "map", type |-> "map[int]interface {}", key |-> "int", m |-> m]

Complex(n) == [kind |-> "complex128", type |-> "complex128", n |-> n]

\* RegexpVars{Regexp, Vars}: Vars maps group indexes to variable names
RegexpVars(regexp, names) ==
  [kind |-> "struct", type |-> "RegexpVars", Regexp |-> regexp, Vars |-> names]

\* And(cmp...) and Or(cmp...): the comparator functions over the comparers cmp
And(cmp) == [kind |-> "func", type |-> "CompareFn", fn |-> "And", cmp |-> cmp]

Or(cmp) == [kind |-> "func", type |-> "CompareFn", fn |-> "Or", cmp |-> cmp]

\* Not{Value}
Not(value) == [kind |-> "struct", type |-> "Not", Value |-> value]

\* NumberDelta{Value, Delta}, both float64 held in halves
NumberDelta(value, delta) ==
  [kind |-> "struct", type |-> "NumberDelta", Value |-> value, Delta |-> delta]

IntKinds == {"int", "int8", "int16", "int32", "int64"}

UintKinds == {"uint", "uint8", "uint16", "uint32", "uint64"}

FloatKinds == {"float32", "float64"}

EmptyMap == [k \in {} |-> Nil]

MapSet(m, k, v) == [x \in (DOMAIN m) \cup {k} |-> IF x = k THEN v ELSE m[x]]

\* a map literal of one and of two entries
Map1(k, v) == MapSet(EmptyMap, k, v)

Map2(k1, v1, k2, v2) == MapSet(Map1(k1, v1), k2, v2)

(***************************************************************************)
(* Errors.  fmt.Errorf(format, args...) is one segment; the text of an    *)
(* error is the sequence of its segments.                                  *)
(***************************************************************************)
NL == [fmt |-> "\n", args |-> <<>>]

Errorf(format, args) == <<[fmt |-> format, args |-> args]>>

RECURSIVE Join(_)
\* strings.Join(errs, "\n")
Join(errs) ==
  IF Len(errs) = 0 THEN <<>>
  ELSE IF Len(errs) = 1 THEN errs[1]
  ELSE errs[1] \o <<NL>> \o Join(Tail(errs))

\* strings.TrimSuffix(e, "\n")
TrimSuffixNL(e) ==
  IF Len(e) > 0 /\ e[Len(e)] = NL THEN SubSeq(e, 1, Len(e) - 1) ELSE e

(***************************************************************************)
(* The engine.                                                             *)
(***************************************************************************)
Pattern(prefix, suffix) == [prefix |-> prefix, suffix |-> suffix]

\* an http.Header: canonical names to their values; a nil header has isNil
Header(m) == [isNil |-> FALSE, m |-> m]

NilHeader == [isNil |-> TRUE, m |-> EmptyMap]

AnyCode == -1

\* NewRehapt: the engine after construction
NewRehapt ==
  [httpHandler         |-> TRUE,
   marshaler           |-> TRUE,
   unmarshaler         |-> TRUE,
   defaultHeaders      |-> Header(EmptyMap),
   variables           |-> EmptyMap,
   variableStoreRegexp |-> Pattern(<<"$">>, <<"$">>),
   variableLoadRegexp  |-> Pattern(<<"_">>, <<"_">>)]

\* a validVarname that accepts every non-empty name (C4 tells it from the code's)
validVarname_nonEmpty(name) == Len(name) >= 1

\* variableNameRegexp ^[a-zA-Z0-9]+$
validVarname(name) == Len(name) >= 1 /\ AllAlnum(name)

GetVariable(e, name) ==
  IF name \in DOMAIN e.variables THEN e.variables[name] ELSE Nil

\* a SetVariable that stores under any name (C15 tells it from the code's)
SetVariable_unchecked(e, name, value) ==
  [r |-> [e EXCEPT !.variables = MapSet(@, name, value)], ok |-> TRUE, msg |-> <<>>]

\* the engine and the error (ok: nil) SetVariable leaves
SetVariable(e, name, value) ==
  IF ~validVarname(name)
  THEN [r |-> e, ok |-> FALSE, msg |-> Errorf("invalid variable name %v", <<Str(name)>>)]
  ELSE [r |-> [e EXCEPT !.variables = MapSet(@, name, value)], ok |-> TRUE, msg |-> <<>>]

(***************************************************************************)
(* Stringification of a variable (the type switch of replaceVars).        *)
(***************************************************************************)
RECURSIVE FormatUint(_)
\* strconv.FormatUint(n, 10)
FormatUint(n) ==
  IF n < 10 THEN <<Digits[n + 1]>> ELSE FormatUint(n \div 10) \o <<Digits[(n % 10) + 1]>>

\* strconv.FormatInt(n, 10)
FormatInt(n) == IF n < 0 THEN <<"-">> \o FormatUint(-n) ELSE FormatUint(n)

\* strconv.FormatFloat(f, 'f', -1, 64) of a value held in halves
FormatFloat(h) ==
  LET a == IF h < 0 THEN -h ELSE h
      sign == IF h < 0 THEN <<"-">> ELSE <<>>
  IN sign \o FormatUint(a \div 2) \o (IF a % 2 = 1 THEN <<".", "5">> ELSE <<>>)

FormatBool(b) == IF b THEN <<"t","r","u","e">> ELSE <<"f","a","l","s","e">>

\* whether the type switch has a case for the value
Stringifiable(v) == v.type \in {"string", "bool"} \cup IntKinds \cup UintKinds \cup FloatKinds

Stringify(v) ==
  IF v.type = "string" THEN v.s
  ELSE IF v.kind \in IntKinds THEN FormatInt(v.n)
  ELSE IF v.kind \in UintKinds THEN FormatUint(v.n)
  ELSE IF v.kind \in FloatKinds THEN FormatFloat(v.h)
  ELSE FormatBool(v.b)

(***************************************************************************)
(* The shortcut patterns.                                                  *)
(***************************************************************************)
\* the lengths n of the names with which prefix([a-zA-Z0-9]+)suffix matches at p
MatchLens(re, str, p) ==
  { n \in 1..Len(str) :
      /\ HasPrefixAt(str, p, re.prefix)
      /\ \A q \in (p + Len(re.prefix))..(p + Len(re.prefix) + n - 1) :
           q <= Len(str) /\ str[q] \in Alnum
      /\ HasPrefixAt(str, p + Len(re.prefix) + n, re.suffix) }

SetMax(xs) == CHOOSE x \in xs : \A y \in xs : y <= x

SetMin(xs) == CHOOSE x \in xs : \A y \in xs : x <= y

\* the leftmost match at or after offset, its name the longest (greedy);
\* Len(str) + 1 as start when there is none
FindSubmatchIndex(re, str, offset) ==
  LET starts == { p \in offset..Len(str) : MatchLens(re, str, p) # {} }
  IN IF starts = {} THEN [found |-> FALSE, start |-> Len(str) + 1, end |-> 0,
                          varnameStart |-> 0, varnameEnd |-> 0]
     ELSE LET p == SetMin(starts)
              n == SetMax(MatchLens(re, str, p))
          IN [found |-> TRUE, start |-> p,
              end |-> p + Len(re.prefix) + n + Len(re.suffix),
              varnameStart |-> p + Len(re.prefix),
              varnameEnd |-> p + Len(re.prefix) + n]

RECURSIVE replaceFrom_lenient(_, _, _, _)
\* a loop that takes an undefined variable for the empty string (C14 tells it from
\* the code's)
replaceFrom_lenient(e, str, offset, replaced) ==
  LET match == FindSubmatchIndex(e.variableLoadRegexp, str, offset)
  IN IF ~match.found
     THEN [ok |-> TRUE, msg |-> <<>>, str |-> replaced \o SubSeq(str, offset, Len(str))]
     ELSE LET varname == SubSeq(str, match.varnameStart, match.varnameEnd - 1)
          IN IF varname \in DOMAIN e.variables /\ ~Stringifiable(e.variables[varname])
             THEN [ok |-> FALSE, str |-> <<>>,
                   msg |-> Errorf("variable %v of type %T cannot be using inside string",
                                  <<Str(varname), e.variables[varname]>>)]
             ELSE replaceFrom_lenient(e, str, match.end,
                                      replaced \o SubSeq(str, offset, match.start - 1)
                                               \o (IF varname \in DOMAIN e.variables
                                                   THEN Stringify(e.variables[varname])
                                                   ELSE <<>>))

RECURSIVE replaceFrom(_, _, _, _)
\* the loop of replaceVars over the matches, from offset on
replaceFrom(e, str, offset, replaced) ==
  LET match == FindSubmatchIndex(e.variableLoadRegexp, str, offset)
  IN IF ~match.found
     THEN [ok |-> TRUE, msg |-> <<>>, str |-> replaced \o SubSeq(str, offset, Len(str))]
     ELSE LET varname == SubSeq(str, match.varnameStart, match.varnameEnd - 1)
          IN IF varname \notin DOMAIN e.variables
             THEN [ok |-> FALSE, str |-> <<>>,
                   msg |-> Errorf("variable %v is not defined", <<Str(varname)>>)]
             ELSE IF ~Stringifiable(e.variables[varname])
             THEN [ok |-> FALSE, str |-> <<>>,
                   msg |-> Errorf("variable %v of type %T cannot be using inside string",
                                  <<Str(varname), e.variables[varname]>>)]
             ELSE replaceFrom(e, str, match.end,
                              replaced \o SubSeq(str, offset, match.start - 1)
                                       \o Stringify(e.variables[varname]))

\* a replaceVars that replaces nothing (C2 tells it from the code's)
replaceVars_none(e, str) == [ok |-> TRUE, msg |-> <<>>, str |-> str]

\* a replaceVars that scans its own result again (C13 tells it from the code's)
replaceVars_rescan(e, str) ==
  LET once == replaceFrom(e, str, 1, <<>>)
  IN IF once.ok THEN replaceFrom(e, once.str, 1, <<>>) ELSE once

replaceVars(e, str) == replaceFrom(e, str, 1, <<>>)

\* an unanchored store pattern: the token is found anywhere in expected (C5 tells it
\* from the code's)
StoreSubmatch_unanchored(re, expected) ==
  LET found == { <<i, j>> \in (1..Len(expected)) \X (1..Len(expected)) :
                   /\ i <= j
                   /\ AllAlnum(SubSeq(expected, i, j))
                   /\ i > Len(re.prefix)
                   /\ SubSeq(expected, i - Len(re.prefix), i - 1) = re.prefix
                   /\ j + Len(re.suffix) <= Len(expected)
                   /\ SubSeq(expected, j + 1, j + Len(re.suffix)) = re.suffix }
  IN IF found = {} THEN <<>>
     ELSE LET f == CHOOSE f \in found : \A g \in found : f[1] <= g[1] /\ (f[1] = g[1] => f[2] >= g[2])
          IN <<re.prefix \o SubSeq(expected, f[1], f[2]) \o re.suffix, SubSeq(expected, f[1], f[2])>>

\* variableStoreRegexp.FindStringSubmatch(expected): the match and its name when the
\* whole of expected is ^prefix([a-zA-Z0-9]+)suffix$
StoreSubmatch(re, expected) ==
  LET n == Len(expected) - Len(re.prefix) - Len(re.suffix)
  IN IF /\ n >= 1
        /\ HasPrefixAt(expected, 1, re.prefix)
        /\ HasPrefixAt(expected, Len(re.prefix) + n + 1, re.suffix)
        /\ AllAlnum(SubSeq(expected, Len(re.prefix) + 1, Len(re.prefix) + n))
     THEN <<expected, SubSeq(expected, Len(re.prefix) + 1, Len(re.prefix) + n)>>
     ELSE <<>>

\* a storeIfVariable that starts a new store with each variable (C16 tells it from
\* the code's)
storeIfVariable_fresh(e, expected, actual) ==
  LET elements == StoreSubmatch(e.variableStoreRegexp, expected)
  IN IF Len(elements) > 1
     THEN [r |-> [e EXCEPT !.variables = Map1(elements[2], actual)], stored |-> TRUE]
     ELSE [r |-> e, stored |-> FALSE]

\* the engine storeIfVariable leaves and what it returns
storeIfVariable(e, expected, actual) ==
  LET elements == StoreSubmatch(e.variableStoreRegexp, expected)
  IN IF Len(elements) > 1
     THEN [r |-> [e EXCEPT !.variables = MapSet(@, elements[2], actual)], stored |-> TRUE]
     ELSE [r |-> e, stored |-> FALSE]

\* SetStoreShortcutBounds: the engine and the error it leaves
SetStoreShortcutBounds(e, prefix, suffix) ==
  IF prefix = <<>>
  THEN [r |-> e, ok |-> FALSE, msg |-> Errorf("invalid prefix, cannot be empty", <<>>)]
  ELSE IF suffix = <<>>
  THEN [r |-> e, ok |-> FALSE, msg |-> Errorf("invalid suffix, cannot be empty", <<>>)]
  ELSE [r |-> [e EXCEPT !.variableStoreRegexp = Pattern(prefix, suffix)],
        ok |-> TRUE, msg |-> <<>>]

(***************************************************************************)
(* The comparators.  Each returns the set of its possible outcomes: the   *)
(* error (ok: nil), the engine it leaves and the comparators it invoked.  *)
(***************************************************************************)
Ok(e, log) == [ok |-> TRUE, msg |-> <<>>, r |-> e, log |-> log]

Err(e, msg, log) == [ok |-> FALSE, msg |-> msg, r |-> e, log |-> log]

NumberKindsMsg(actual) ==
  Errorf("different kinds. Expected int{8,16,32,64}, uint{8,16,32,64} or float{32,64}, got %v",
         <<KindOf(actual)>>)

\* int64(f) of a float held in halves: the fraction is discarded
TruncFloat(h) == IF h >= 0 THEN h \div 2 ELSE -((-h) \div 2)

\* uint64(f): a negative f is out of range, the result depends on the build
\* (the wrapped bits, or zero)
Uint64OfFloat(h) == IF TruncFloat(h) >= 0 THEN {TruncFloat(h)} ELSE {TruncFloat(h), 0}

\* an Any that still wants a string (C9 tells it from the code's)
anyCompare_stringOnly(e, expected, actual, path) ==
  IF actual.kind # "string"
  THEN {Err(e, Errorf("different kinds. Expected string, got %v", <<KindOf(actual)>>), <<>>)}
  ELSE {Ok(e, <<>>)}

anyCompare(e, expected, actual, path) == {Ok(e, <<>>)}

storeVarCompare(e, expected, actual, path) ==
  LET set == SetVariable(e, expected.s, actual)
  IN IF ~set.ok THEN {Err(e, set.msg, <<>>)} ELSE {Ok(set.r, <<>>)}

\* a pattern of literal characters, ., ^ and $: whether it matches at j
RECURSIVE MatchHere(_, _, _, _)
MatchHere(pat, i, s, j) ==
  IF i > Len(pat) THEN TRUE
  ELSE IF pat[i] = "^" THEN j = 1 /\ MatchHere(pat, i + 1, s, j)
  ELSE IF pat[i] = "$" THEN j = Len(s) + 1 /\ MatchHere(pat, i + 1, s, j)
  ELSE IF pat[i] = "." THEN j <= Len(s) /\ MatchHere(pat, i + 1, s, j + 1)
  ELSE j <= Len(s) /\ s[j] = pat[i] /\ MatchHere(pat, i + 1, s, j + 1)

\* re.MatchString(s)
MatchString(pat, s) == \E j \in 1..(Len(s) + 1) : MatchHere(pat, 1, s, j)

regexpCompare(e, expected, actual, path) ==
  IF actual.kind # "string"
  THEN {Err(e, Errorf("different kinds. Expected string, got %v", <<KindOf(actual)>>), <<>>)}
  ELSE LET rep == replaceVars(e, expected.s)
       IN IF ~rep.ok THEN {Err(e, rep.msg, <<>>)}
          ELSE IF ~MatchString(rep.str, actual.s)
          THEN {Err(e, Errorf("regexp '%v' does not match '%v'", <<Str(rep.str), Str(actual.s)>>), <<>>)}
          ELSE {Ok(e, <<>>)}

stringCompare(e, expected, actual, path) ==
  LET st == storeIfVariable(e, expected.s, actual)
  IN IF st.stored THEN {Ok(st.r, <<>>)}
     ELSE IF actual.kind # "string"
     THEN {Err(e, Errorf("different kinds. Expected string, got %v", <<KindOf(actual)>>), <<>>)}
     ELSE LET rep == replaceVars(e, expected.s)
          IN IF ~rep.ok THEN {Err(e, rep.msg, <<>>)}
             ELSE IF rep.str # actual.s
             THEN {Err(e, Errorf("strings does not match. Expected '%v', got '%v'",
                                 <<Str(rep.str), Str(actual.s)>>), <<>>)}
             ELSE {Ok(e, <<>>)}

boolCompare(e, expected, actual, path) ==
  IF actual.kind # "bool"
  THEN {Err(e, Errorf("different kinds. Expected bool, got %v", <<KindOf(actual)>>), <<>>)}
  ELSE IF expected.b # actual.b
  THEN {Err(e, Errorf("bools does not match. Expected %v, got %v", <<expected, actual>>), <<>>)}
  ELSE {Ok(e, <<>>)}

intCompare(e, expected, actual, path) ==
  IF actual.kind \in IntKinds
  THEN IF expected.n # actual.n
       THEN {Err(e, Errorf("integers does not match. Expected %v, got %v", <<expected, actual>>), <<>>)}
       ELSE {Ok(e, <<>>)}
  ELSE IF actual.kind \in UintKinds
  THEN IF expected.n # actual.n       \* uint64(expectedInt) != actualInt
       THEN {Err(e, Errorf("uintegers does not match. Expected %v, got %v", <<expected, actual>>), <<>>)}
       ELSE {Ok(e, <<>>)}
  ELSE IF actual.kind \in FloatKinds
  THEN IF 2 * expected.n # actual.h   \* float64(expectedInt) != actualFloat
       THEN {Err(e, Errorf("floats does not match. Expected %v, got %v", <<expected, actual>>), <<>>)}
       ELSE {Ok(e, <<>>)}
  ELSE {Err(e, NumberKindsMsg(actual), <<>>)}

uintCompare(e, expected, actual, path) ==
  IF actual.kind \in IntKinds
  THEN IF expected.n # actual.n       \* int64(expectedInt) != actualInt
       THEN {Err(e, Errorf("integers does not match. Expected %v, got %v", <<expected, actual>>), <<>>)}
       ELSE {Ok(e, <<>>)}
  ELSE IF actual.kind \in UintKinds
  THEN IF expected.n # actual.n
       THEN {Err(e, Errorf("uintegers does not match. Expected %v, got %v", <<expected, actual>>), <<>>)}
       ELSE {Ok(e, <<>>)}
  ELSE IF actual.kind \in FloatKinds
  THEN \* float64(expectedInt) != actualFloat; a set top bit is 2^63 or more
       IF expected.n < 0 \/ 2 * expected.n # actual.h
       THEN {Err(e, Errorf("floats does not match. Expected %v, got %v", <<expected, actual>>), <<>>)}
       ELSE {Ok(e, <<>>)}
  ELSE {Err(e, NumberKindsMsg(actual), <<>>)}

floatCompare(e, expected, actual, path) ==
  IF actual.kind \in IntKinds
  THEN IF TruncFloat(expected.h) # actual.n     \* int64(expectedFloat) != actualInt
       THEN {Err(e, Errorf("integers does not match. Expected %v, got %v", <<expected, actual>>), <<>>)}
       ELSE {Ok(e, <<>>)}
  ELSE IF actual.kind \in UintKinds
  THEN { IF u # actual.n                        \* uint64(expectedFloat) != actualInt
         THEN Err(e, Errorf("uintegers does not match. Expected %v, got %v", <<expected, actual>>), <<>>)
         ELSE Ok(e, <<>>) : u \in Uint64OfFloat(expected.h) }
  ELSE IF actual.kind \in FloatKinds
  THEN IF expected.h # actual.h
       THEN {Err(e, Errorf("floats does not match. Expected %v, got %v", <<expected, actual>>), <<>>)}
       ELSE {Ok(e, <<>>)}
  ELSE {Err(e, NumberKindsMsg(actual), <<>>)}

(***************************************************************************)
(* Regular expressions with groups.  The patterns are made of literal     *)
(* characters, ".", "^", "$", a "*" after a character or ".", and groups   *)
(* that are not nested.                                                    *)
(***************************************************************************)
\* regexp.Compile: nil, or the error of the parser (which writes the expression
\* between backquotes)
Compile(pat) ==
  LET depth(i) == Cardinality({ k \in 1..i : pat[k] = "(" }) - Cardinality({ k \in 1..i : pat[k] = ")" })
  IN IF \E i \in 1..Len(pat) : depth(i) < 0
     THEN [ok |-> FALSE, msg |-> Errorf("error parsing regexp: unexpected ): %v", <<Str(pat)>>)]
     ELSE IF \E i \in 1..Len(pat) : pat[i] = "*" /\ (i = 1 \/ pat[i - 1] = "(")
     THEN [ok |-> FALSE,
           msg |-> Errorf("error parsing regexp: missing argument to repetition operator: %v",
                          <<Str(<<"*">>)>>)]
     ELSE IF depth(Len(pat)) > 0
     THEN [ok |-> FALSE, msg |-> Errorf("error parsing regexp: missing closing ): %v", <<Str(pat)>>)]
     ELSE [ok |-> TRUE, msg |-> <<>>]

NoMatch == [found |-> FALSE, end |-> 0, caps |-> <<>>]

RECURSIVE Submatch(_, _, _, _, _, _)
RECURSIVE SubmatchStar(_, _, _, _, _, _, _)
\* the match a backtracking search finds first for pat from i on at position j of s:
\* caps are the groups closed so far, open is where the open group began
Submatch(pat, i, s, j, caps, open) ==
  IF i > Len(pat) THEN [found |-> TRUE, end |-> j, caps |-> caps]
  ELSE IF pat[i] = "(" THEN Submatch(pat, i + 1, s, j, caps, j)
  ELSE IF pat[i] = ")" THEN Submatch(pat, i + 1, s, j, Append(caps, <<open, j>>), 0)
  ELSE IF pat[i] = "^" THEN (IF j = 1 THEN Submatch(pat, i + 1, s, j, caps, open) ELSE NoMatch)
  ELSE IF pat[i] = "$"
  THEN (IF j = Len(s) + 1 THEN Submatch(pat, i + 1, s, j, caps, open) ELSE NoMatch)
  ELSE IF i < Len(pat) /\ pat[i + 1] = "*"
  THEN LET run == { k \in 0..(Len(s) - j + 1) :
                      \A q \in j..(j + k - 1) : pat[i] = "." \/ s[q] = pat[i] }
       IN SubmatchStar(pat, i, s, j, caps, open, SetMax(run))
  ELSE IF j <= Len(s) /\ (pat[i] = "." \/ s[j] = pat[i])
  THEN Submatch(pat, i + 1, s, j + 1, caps, open)
  ELSE NoMatch

\* the greedy repetition of the character at i: k times, or else fewer
SubmatchStar(pat, i, s, j, caps, open, k) ==
  IF k < 0 THEN NoMatch
  ELSE LET m == Submatch(pat, i + 2, s, j + k, caps, open)
       IN IF m.found THEN m ELSE SubmatchStar(pat, i, s, j, caps, open, k - 1)

\* re.FindStringSubmatch(s): the leftmost match and its groups, or nothing
FindStringSubmatch(pat, s) ==
  LET starts == { j \in 1..(Len(s) + 1) : Submatch(pat, 1, s, j, <<>>, 0).found }
  IN IF starts = {} THEN <<>>
     ELSE LET j == SetMin(starts)
              m == Submatch(pat, 1, s, j, <<>>, 0)
          IN <<SubSeq(s, j, m.end - 1)>>
             \o [g \in 1..Len(m.caps) |-> SubSeq(s, m.caps[g][1], m.caps[g][2] - 1)]

RECURSIVE regexpVarsLoop(_, _, _, _)
\* the loop of regexpVarsCompare over the group indexes not yet visited, in any order
regexpVarsLoop(e, expected, elements, groupids) ==
  IF groupids = {} THEN {Ok(e, <<>>)}
  ELSE UNION {
         IF groupid >= Len(elements)
         THEN {Err(e, Errorf("expected variable index %d overflow regexp group count of %d",
                             <<GoInt(groupid), GoInt(Len(elements))>>), <<>>)}
         ELSE IF groupid < 0
         THEN {Err(e, Errorf("panic: runtime error: index out of range [%d]", <<GoInt(groupid)>>),
                   <<>>)}
         ELSE LET set == SetVariable(e, expected.Vars[groupid], Str(elements[groupid + 1]))
              IN IF ~set.ok THEN {Err(e, set.msg, <<>>)}
                 ELSE regexpVarsLoop(set.r, expected, elements, groupids \ {groupid})
         : groupid \in groupids }

\* a loop that passes over the indexes beyond the groups (C19 tells it from the code's)
regexpVarsCompare_ignoreOverflow(e, expected, actual, path) ==
  IF actual.kind # "string"
  THEN {Err(e, Errorf("different kinds. Expected string, got %v", <<KindOf(actual)>>), <<>>)}
  ELSE IF ~Compile(expected.Regexp).ok THEN {Err(e, Compile(expected.Regexp).msg, <<>>)}
  ELSE LET elements == FindStringSubmatch(expected.Regexp, actual.s)
       IN IF Len(elements) = 0
          THEN {Err(e, Errorf("regexp '%v' does not match '%v'",
                              <<Str(expected.Regexp), Str(actual.s)>>), <<>>)}
          ELSE regexpVarsLoop(e, expected, elements,
                              { g \in DOMAIN expected.Vars : g < Len(elements) })

regexpVarsCompare(e, expected, actual, path) ==
  IF actual.kind # "string"
  THEN {Err(e, Errorf("different kinds. Expected string, got %v", <<KindOf(actual)>>), <<>>)}
  ELSE IF ~Compile(expected.Regexp).ok THEN {Err(e, Compile(expected.Regexp).msg, <<>>)}
  ELSE LET elements == FindStringSubmatch(expected.Regexp, actual.s)
       IN IF Len(elements) = 0
          THEN {Err(e, Errorf("regexp '%v' does not match '%v'",
                              <<Str(expected.Regexp), Str(actual.s)>>), <<>>)}
          ELSE regexpVarsLoop(e, expected, elements, DOMAIN expected.Vars)

\* float64 of a numeric actual, in halves (an unsigned one below 2^63)
ActualFloatValue(actual) == IF actual.kind \in FloatKinds THEN actual.h ELSE 2 * actual.n

\* math.Abs
Abs(x) == IF x < 0 THEN -x ELSE x

\* a tolerance that excludes its bound (C11 tells it from the code's)
numberDeltaCompare_exclusive(e, expected, actual, path) ==
  IF actual.kind \notin IntKinds \cup UintKinds \cup FloatKinds
  THEN {Err(e, NumberKindsMsg(actual), <<>>)}
  ELSE IF Abs(expected.Value - ActualFloatValue(actual)) >= expected.Delta
  THEN {Err(e, Errorf("max difference between %v and %v allowed is %v, but difference was %v",
                      <<GoFloat64(expected.Value), actual, GoFloat64(expected.Delta),
                        GoFloat64(Abs(expected.Value - ActualFloatValue(actual)))>>), <<>>)}
  ELSE {Ok(e, <<>>)}

numberDeltaCompare(e, expected, actual, path) ==
  IF actual.kind \notin IntKinds \cup UintKinds \cup FloatKinds
  THEN {Err(e, NumberKindsMsg(actual), <<>>)}
  ELSE LET delta == Abs(expected.Value - ActualFloatValue(actual))
       IN IF delta > expected.Delta
          THEN {Err(e, Errorf("max difference between %v and %v allowed is %v, but difference was %v",
                              <<GoFloat64(expected.Value), actual, GoFloat64(expected.Delta),
                                GoFloat64(delta)>>), <<>>)}
          ELSE {Ok(e, <<>>)}

(***************************************************************************)
(* The registry and the recursive comparison.                              *)
(***************************************************************************)
Comparator(kind, type, cmp) == [ExpectedKind |-> kind, ExpectedType |-> type, Compare |-> cmp]

\* initComparators: the list in registration order; type "nil" is the generic rule
comparators ==
  << Comparator("struct", "Not", "notCompare"),
     Comparator("struct", "TimeDelta", "timeDeltaCompare"),
     Comparator("struct", "NumberDelta", "numberDeltaCompare"),
     Comparator("struct", "RegexpVars", "regexpVarsCompare"),
     Comparator("slice", "UnsortedS", "unsortedSliceCompare"),
     Comparator("slice", "nil", "sliceCompare"),
     Comparator("map", "PartialM", "partialMapCompare"),
     Comparator("map", "nil", "mapCompare"),
     Comparator("string", "any", "anyCompare"),
     Comparator("string", "StoreVar", "storeVarCompare"),
     Comparator("string", "LoadVar", "loadVarCompare"),
     Comparator("string", "Regexp", "regexpCompare"),
     Comparator("string", "nil", "stringCompare"),
     Comparator("bool", "nil", "boolCompare"),
     Comparator("int", "nil", "intCompare"),
     Comparator("int8", "nil", "intCompare"),
     Comparator("int16", "nil", "intCompare"),
     Comparator("int32", "nil", "intCompare"),
     Comparator("int64", "nil", "intCompare"),
     Comparator("uint", "nil", "uintCompare"),
     Comparator("uint8", "nil", "uintCompare"),
     Comparator("uint16", "nil", "uintCompare"),
     Comparator("uint32", "nil", "uintCompare"),
     Comparator("uint64", "nil", "uintCompare"),
     Comparator("float32", "nil", "floatCompare"),
     Comparator("float64", "nil", "floatCompare") >>

\* the comparators the loop of compare stops on: the first is the one invoked
Matching(expected) ==
  { i \in 1..Len(comparators) :
      /\ comparators[i].ExpectedKind = expected.kind
      /\ (comparators[i].ExpectedType = expected.type \/ comparators[i].ExpectedType = "nil") }

RECURSIVE compare(_, _, _, _)
RECURSIVE sliceLoop(_, _, _, _, _, _, _)
RECURSIVE unsortedLoop(_, _, _, _, _, _, _, _)
RECURSIVE unsortedScan(_, _, _, _, _, _, _, _, _)
RECURSIVE partialMapLoop(_, _, _, _, _, _, _)
RECURSIVE mapLoop(_, _, _, _, _, _, _)
RECURSIVE andLoop_all(_, _, _, _, _, _)
RECURSIVE andLoop(_, _, _, _, _, _)
RECURSIVE orLoop_first(_, _, _, _, _, _, _)
RECURSIVE orLoop(_, _, _, _, _, _, _)

loadVarCompare(e, expected, actual, path) ==
  compare(e, GetVariable(e, expected.s), actual, path \o <<[load |-> expected.s]>>)

\* the loop of sliceCompare from element i (0-based) on
sliceLoop(e, expected, actual, path, i, errs, log) ==
  IF i >= Len(expected.items)
  THEN IF Len(errs) > 0 THEN {Err(e, Join(errs), log)} ELSE {Ok(e, log)}
  ELSE UNION { sliceLoop(o.r, expected, actual, path, i + 1,
                         IF o.ok THEN errs
                         ELSE Append(errs, Errorf("slice element %v does not match. ", <<GoInt(i)>>)
                                           \o o.msg),
                         log \o o.log)
               : o \in compare(e, expected.items[i + 1], actual.items[i + 1],
                               path \o <<[index |-> i]>>) }

\* a sliceCompare that puts the store back when it fails (C27 tells it from the
\* code's)
sliceCompare_restoring(e, expected, actual, path) ==
  IF actual.kind # "slice"
  THEN {Err(e, Errorf("different kinds. Expected slice, got %v", <<KindOf(actual)>>), <<>>)}
  ELSE IF Len(expected.items) # Len(actual.items)
  THEN {Err(e, Errorf("different slice sizes. Expected %d, got %d. Expected %v got %v",
                      <<GoInt(Len(expected.items)), GoInt(Len(actual.items)), expected, actual>>),
            <<>>)}
  ELSE { IF o.ok THEN o ELSE [o EXCEPT !.r = e]
         : o \in sliceLoop(e, expected, actual, path, 0, <<>>, <<>>) }

sliceCompare(e, expected, actual, path) ==
  IF actual.kind # "slice"
  THEN {Err(e, Errorf("different kinds. Expected slice, got %v", <<KindOf(actual)>>), <<>>)}
  ELSE IF Len(expected.items) # Len(actual.items)
  THEN {Err(e, Errorf("different slice sizes. Expected %d, got %d. Expected %v got %v",
                      <<GoInt(Len(expected.items)), GoInt(Len(actual.items)), expected, actual>>),
            <<>>)}
  ELSE sliceLoop(e, expected, actual, path, 0, <<>>, <<>>)

\* actualIndexes without its element at position j (1-based)
RemoveAt(s, j) == SubSeq(s, 1, j - 1) \o SubSeq(s, j + 1, Len(s))

\* a scan that leaves the index it has matched in the list (C25 tells it from the
\* code's)
unsortedScan_reuse(e, expected, actual, path, i, j, actualIndexes, errs, log) ==
  IF j >= Len(actualIndexes)
  THEN unsortedLoop(e, expected, actual, path, i + 1, actualIndexes,
                    Append(errs, Errorf("expected element %v at index %v not found",
                                        <<expected.items[i + 1], GoInt(i)>>)),
                    log)
  ELSE LET idx == actualIndexes[j + 1]
       IN UNION { IF o.ok
                  THEN unsortedLoop(o.r, expected, actual, path, i + 1,
                                    actualIndexes, errs, log \o o.log)
                  ELSE unsortedScan(o.r, expected, actual, path, i, j + 1,
                                    actualIndexes, errs, log \o o.log)
                  : o \in compare(e, expected.items[i + 1], actual.items[idx + 1],
                                  path \o <<[index |-> i, actual |-> idx]>>) }

\* the inner loop: expected element i against the actual indexes from position j on
unsortedScan(e, expected, actual, path, i, j, actualIndexes, errs, log) ==
  IF j >= Len(actualIndexes)
  THEN unsortedLoop(e, expected, actual, path, i + 1, actualIndexes,
                    Append(errs, Errorf("expected element %v at index %v not found",
                                        <<expected.items[i + 1], GoInt(i)>>)),
                    log)
  ELSE LET idx == actualIndexes[j + 1]
       IN UNION { IF o.ok
                  THEN unsortedLoop(o.r, expected, actual, path, i + 1,
                                    RemoveAt(actualIndexes, j + 1), errs, log \o o.log)
                  ELSE unsortedScan(o.r, expected, actual, path, i, j + 1,
                                    actualIndexes, errs, log \o o.log)
                  : o \in compare(e, expected.items[i + 1], actual.items[idx + 1],
                                  path \o <<[index |-> i, actual |-> idx]>>) }

\* the loop nextExpected from expected element i (0-based) on
unsortedLoop(e, expected, actual, path, i, actualIndexes, errs, log) ==
  IF i >= Len(expected.items)
  THEN LET all == IF Len(actualIndexes) > 0
                  THEN Append(errs, Errorf("actual elements at indexes %v not found",
                                           <<Slice([k \in 1..Len(actualIndexes) |->
                                                      GoInt(actualIndexes[k])])>>))
                  ELSE errs
       IN IF Len(all) > 0 THEN {Err(e, Join(all), log)} ELSE {Ok(e, log)}
  ELSE unsortedScan(e, expected, actual, path, i, 0, actualIndexes, errs, log)

unsortedSliceCompare(e, expected, actual, path) ==
  IF actual.kind # "slice"
  THEN {Err(e, Errorf("different kinds. Expected slice, got %v", <<KindOf(actual)>>), <<>>)}
  ELSE IF Len(expected.items) # Len(actual.items)
  THEN {Err(e, Errorf("different slice sizes. Expected %v, got %v. Expected %v got %v",
                      <<GoInt(Len(expected.items)), GoInt(Len(actual.items)), expected, actual>>),
            <<>>)}
  ELSE unsortedLoop(e, expected, actual, path, 0,
                    [k \in 1..Len(actual.items) |-> k - 1], <<>>, <<>>)

\* the loop of partialMapCompare over the keys not yet visited, in any order
partialMapLoop(e, expected, actual, path, keys, errs, log) ==
  IF keys = {}
  THEN IF Len(errs) > 0 THEN {Err(e, Join(errs), log)} ELSE {Ok(e, log)}
  ELSE UNION { IF key \notin DOMAIN actual.m
               THEN partialMapLoop(e, expected, actual, path, keys \ {key},
                                   Append(errs, Errorf("expected key %v not found", <<Str(key)>>)),
                                   log)
               ELSE UNION { partialMapLoop(o.r, expected, actual, path, keys \ {key},
                                           IF o.ok THEN errs
                                           ELSE Append(errs,
                                                  Errorf("map element [%v] does not match. ",
                                                         <<Str(key)>>) \o o.msg),
                                           log \o o.log)
                            : o \in compare(e, expected.m[key], actual.m[key],
                                            path \o <<[key |-> key]>>) }
               : key \in keys }

partialMapCompare(e, expected, actual, path) ==
  IF actual.kind # "map"
  THEN {Err(e, Errorf("different kinds. Expected map, got %v", <<KindOf(actual)>>), <<>>)}
  ELSE IF expected.key # actual.key
  THEN {Err(e, Errorf("different map key types. Expected %v, got %v",
                      <<KeyTypeOf(expected), KeyTypeOf(actual)>>), <<>>)}
  ELSE partialMapLoop(e, expected, actual, path, DOMAIN expected.m, <<>>, <<>>)

\* the loop of mapCompare over the keys not yet visited, in any order
mapLoop(e, expected, actual, path, keys, errs, log) ==
  IF keys = {}
  THEN IF Len(errs) > 0 THEN {Err(e, Join(errs), log)} ELSE {Ok(e, log)}
  ELSE UNION { IF key \notin DOMAIN actual.m
               THEN mapLoop(e, expected, actual, path, keys \ {key},
                            Append(errs, Errorf("expected key %v not found in actual %v",
                                                <<Str(key), actual>>)),
                            log)
               ELSE UNION { mapLoop(o.r, expected, actual, path, keys \ {key},
                                    IF o.ok THEN errs
                                    ELSE Append(errs,
                                           Errorf("map element [%v] does not match. ",
                                                  <<Str(key)>>) \o o.msg),
                                    log \o o.log)
                            : o \in compare(e, expected.m[key], actual.m[key],
                                            path \o <<[key |-> key]>>) }
               : key \in keys }

\* a mapCompare that skips the size check (C6 tells it from the code's)
mapCompare_noSize(e, expected, actual, path) == partialMapCompare(e, expected, actual, path)

mapCompare(e, expected, actual, path) ==
  IF actual.kind # "map"
  THEN {Err(e, Errorf("different kinds. Expected map, got %v", <<KindOf(actual)>>), <<>>)}
  ELSE IF expected.key # actual.key
  THEN {Err(e, Errorf("different map key types. Expected %v, got %v",
                      <<KeyTypeOf(expected), KeyTypeOf(actual)>>), <<>>)}
  ELSE IF Cardinality(DOMAIN expected.m) # Cardinality(DOMAIN actual.m)
  THEN {Err(e, Errorf("different map sizes. Expected %d, got %d. Expected %v got %v",
                      <<GoInt(Cardinality(DOMAIN expected.m)),
                        GoInt(Cardinality(DOMAIN actual.m)), expected, actual>>), <<>>)}
  ELSE mapLoop(e, expected, actual, path, DOMAIN expected.m, <<>>, <<>>)

\* a Not that leaves the engine as it found it (C20 tells it from the code's)
notCompare_noEffect(e, expected, actual, path) ==
  { IF o.ok
    THEN Err(e, Errorf("expected not %v, got %v", <<expected.Value, actual>>), o.log)
    ELSE Ok(e, o.log)
    : o \in compare(e, expected.Value, actual, path) }

\* the normal comparison, where an error means ok and no error means an error
notCompare(e, expected, actual, path) ==
  { IF o.ok
    THEN Err(o.r, Errorf("expected not %v, got %v", <<expected.Value, actual>>), o.log)
    ELSE Ok(o.r, o.log)
    : o \in compare(e, expected.Value, actual, path) }

\* an And that goes on after a comparer has failed and returns the first error (C21
\* tells it from the code's)
andLoop_all(e, cmp, actual, path, i, log) ==
  IF i > Len(cmp) THEN {Ok(e, log)}
  ELSE UNION { IF o.ok THEN andLoop_all(o.r, cmp, actual, path, i + 1, log \o o.log)
               ELSE { Err(rest.r, o.msg, rest.log)
                      : rest \in andLoop_all(o.r, cmp, actual, path, i + 1, log \o o.log) }
               : o \in compare(e, cmp[i], actual, path) }

\* the loop of And from the comparer i on: the first error is returned
andLoop(e, cmp, actual, path, i, log) ==
  IF i > Len(cmp) THEN {Ok(e, log)}
  ELSE UNION { IF o.ok THEN andLoop(o.r, cmp, actual, path, i + 1, log \o o.log)
               ELSE {Err(o.r, o.msg, log \o o.log)}
               : o \in compare(e, cmp[i], actual, path) }

andCompare(e, expected, actual, path) == andLoop(e, expected.cmp, actual, path, 1, <<>>)

\* an Or that stops at the first comparer that succeeds (C22 tells it from the code's)
orLoop_first(e, cmp, actual, path, i, errs, log) ==
  IF i > Len(cmp)
  THEN IF Len(errs) = Len(cmp) THEN {Err(e, Join(errs), log)} ELSE {Ok(e, log)}
  ELSE UNION { IF o.ok THEN {Ok(o.r, log \o o.log)}
               ELSE orLoop_first(o.r, cmp, actual, path, i + 1, Append(errs, o.msg), log \o o.log)
               : o \in compare(e, cmp[i], actual, path) }

\* the loop of Or from the comparer i on: errs are the errors met so far, returned
\* only if all failed
orLoop(e, cmp, actual, path, i, errs, log) ==
  IF i > Len(cmp)
  THEN IF Len(errs) = Len(cmp) THEN {Err(e, Join(errs), log)} ELSE {Ok(e, log)}
  ELSE UNION { orLoop(o.r, cmp, actual, path, i + 1,
                      IF o.ok THEN errs ELSE Append(errs, o.msg), log \o o.log)
               : o \in compare(e, cmp[i], actual, path) }

orCompare(e, expected, actual, path) == orLoop(e, expected.cmp, actual, path, 1, <<>>, <<>>)

\* an expected value that is a comparator function
IsCompareFn(expected) == expected.kind = "func" /\ expected.type = "CompareFn"

\* the call fn(r, ctx) of an expected comparator function
CallCompareFn(e, expected, actual, path) ==
  CASE expected.fn = "And" -> andCompare(e, expected, actual, path)
    [] expected.fn = "Or"  -> orCompare(e, expected, actual, path)

\* comparator.Compare(ctx) of the registered comparator named cmp
Invoke(cmp, e, expected, actual, path) ==
  CASE cmp = "notCompare"           -> notCompare(e, expected, actual, path)
    [] cmp = "numberDeltaCompare"   -> numberDeltaCompare(e, expected, actual, path)
    [] cmp = "regexpVarsCompare"    -> regexpVarsCompare(e, expected, actual, path)
    [] cmp = "unsortedSliceCompare" -> unsortedSliceCompare(e, expected, actual, path)
    [] cmp = "sliceCompare"         -> sliceCompare(e, expected, actual, path)
    [] cmp = "partialMapCompare"    -> partialMapCompare(e, expected, actual, path)
    [] cmp = "mapCompare"           -> mapCompare(e, expected, actual, path)
    [] cmp = "anyCompare"           -> anyCompare(e, expected, actual, path)
    [] cmp = "storeVarCompare"      -> storeVarCompare(e, expected, actual, path)
    [] cmp = "loadVarCompare"       -> loadVarCompare(e, expected, actual, path)
    [] cmp = "regexpCompare"        -> regexpCompare(e, expected, actual, path)
    [] cmp = "stringCompare"        -> stringCompare(e, expected, actual, path)
    [] cmp = "boolCompare"          -> boolCompare(e, expected, actual, path)
    [] cmp = "intCompare"           -> intCompare(e, expected, actual, path)
    [] cmp = "uintCompare"          -> uintCompare(e, expected, actual, path)
    [] cmp = "floatCompare"         -> floatCompare(e, expected, actual, path)

\* a compare that dispatches a null actual to the comparators (C10 tells it from
\* the code's)
compare_nilActualDispatched(e, expected, actual, path) ==
  IF IsNil(expected) /\ IsNil(actual) THEN {Ok(e, <<>>)}
  ELSE IF IsNil(expected)
  THEN {Err(e, Errorf("expected is nil but got %v", <<actual>>), <<>>)}
  ELSE IF IsCompareFn(expected)
  THEN { [o EXCEPT !.log = <<[path |-> path, cmp |-> expected.fn]>> \o @]
         : o \in CallCompareFn(e, expected, actual, path) }
  ELSE IF Matching(expected) = {}
  THEN {Err(e, Errorf("unhandled type %T", <<expected>>), <<>>)}
  ELSE LET cmp == comparators[SetMin(Matching(expected))].Compare
       IN { [o EXCEPT !.log = <<[path |-> path, cmp |-> cmp]>> \o @]
            : o \in Invoke(cmp, e, expected, actual, path) }

\* a compare that takes the last matching comparator of the list (C24 tells it from
\* the code's)
compare_lastMatching(e, expected, actual, path) ==
  IF IsNil(expected) /\ IsNil(actual) THEN {Ok(e, <<>>)}
  ELSE IF IsNil(expected)
  THEN {Err(e, Errorf("expected is nil but got %v", <<actual>>), <<>>)}
  ELSE IF IsNil(actual)
  THEN {Err(e, Errorf("expected %v but got nil", <<expected>>), <<>>)}
  ELSE IF IsCompareFn(expected)
  THEN { [o EXCEPT !.log = <<[path |-> path, cmp |-> expected.fn]>> \o @]
         : o \in CallCompareFn(e, expected, actual, path) }
  ELSE IF Matching(expected) = {}
  THEN {Err(e, Errorf("unhandled type %T", <<expected>>), <<>>)}
  ELSE LET cmp == comparators[SetMax(Matching(expected))].Compare
       IN { [o EXCEPT !.log = <<[path |-> path, cmp |-> cmp]>> \o @]
            : o \in Invoke(cmp, e, expected, actual, path) }

\* r.compare(expected, actual): path is where in the expected tree the call is made
compare(e, expected, actual, path) ==
  IF IsNil(expected) /\ IsNil(actual) THEN {Ok(e, <<>>)}
  ELSE IF IsNil(expected)
  THEN {Err(e, Errorf("expected is nil but got %v", <<actual>>), <<>>)}
  ELSE IF IsNil(actual)
  THEN {Err(e, Errorf("expected %v but got nil", <<expected>>), <<>>)}
  ELSE IF IsCompareFn(expected)
  THEN { [o EXCEPT !.log = <<[path |-> path, cmp |-> expected.fn]>> \o @]
         : o \in CallCompareFn(e, expected, actual, path) }
  ELSE IF Matching(expected) = {}
  THEN {Err(e, Errorf("unhandled type %T", <<expected>>), <<>>)}
  ELSE LET cmp == comparators[SetMin(Matching(expected))].Compare
       IN { [o EXCEPT !.log = <<[path |-> path, cmp |-> cmp]>> \o @]
            : o \in Invoke(cmp, e, expected, actual, path) }

(***************************************************************************)
(* HTTP: the request Test builds, the response the handler writes.         *)
(***************************************************************************)
Letters == <<"a","b","c","d","e","f","g","h","i","j","k","l","m",
             "n","o","p","q","r","s","t","u","v","w","x","y","z">>

Capitals == <<"A","B","C","D","E","F","G","H","I","J","K","L","M",
              "N","O","P","Q","R","S","T","U","V","W","X","Y","Z">>

ToUpper(c) == IF c \in Lower THEN Capitals[CHOOSE i \in 1..26 : Letters[i] = c] ELSE c

ToLower(c) == IF c \in Upper THEN Letters[CHOOSE i \in 1..26 : Capitals[i] = c] ELSE c

\* the characters of an HTTP token, among those the model writes
TokenChars == Alnum \cup {"!", "#", "$", "%", "&", "*", "+", "-", ".", "^", "_", "|", "~"}

\* textproto.CanonicalMIMEHeaderKey
CanonicalMIMEHeaderKey(s) ==
  IF \E i \in 1..Len(s) : s[i] \notin TokenChars THEN s
  ELSE [i \in 1..Len(s) |-> IF i = 1 \/ s[i - 1] = "-" THEN ToUpper(s[i]) ELSE ToLower(s[i])]

\* header.Del(k)
HeaderDel(header, k) ==
  [header EXCEPT !.m = [x \in (DOMAIN @) \ {CanonicalMIMEHeaderKey(k)} |-> @[x]]]

\* header.Add(k, value) on a header that is not nil
HeaderAdd(header, k, value) ==
  LET key == CanonicalMIMEHeaderKey(k)
  IN [header EXCEPT !.m = MapSet(@, key, (IF key \in DOMAIN @ THEN @[key] ELSE <<>>) \o <<value>>)]

cloneHeader(header) == IF header.isNil THEN NilHeader ELSE Header(header.m)

\* a response header as the actual value of a comparison: map[string][]string
HeaderValue(header) ==
  [kind |-> "map", type |-> "http.Header", key |-> "string",
   m |-> [k \in DOMAIN header.m |->
            [kind |-> "slice", type |-> "[]string",
             items |-> [i \in 1..Len(header.m[k]) |-> Str(header.m[k][i])]]]]

\* an io.Reader over data (err: reading it fails), and no reader
Reader(data, err) == [isNil |-> FALSE, data |-> data, err |-> err]

NoReader == [isNil |-> TRUE, data |-> <<>>, err |-> FALSE]

\* json.Marshal: the encoding is kept as the value it encodes; complex numbers
\* have none
Marshal(v) ==
  IF v.kind = "complex128"
  THEN [ok |-> FALSE, data |-> <<>>,
        msg |-> Errorf("json: unsupported type: %v", <<TypeOf(v)>>)]
  ELSE [ok |-> TRUE, data |-> <<[json |-> v]>>, msg |-> <<>>]

DigitValue(c) == CHOOSE i \in 0..9 : Digits[i + 1] = c

RECURSIVE ParseUint(_)
ParseUint(s) ==
  IF Len(s) = 0 THEN 0 ELSE 10 * ParseUint(SubSeq(s, 1, Len(s) - 1)) + DigitValue(s[Len(s)])

Quote == "\""

\* json.Unmarshal into an interface{}, on the bodies the handlers of the model
\* write: null, true, false, a natural number, a string without escapes; any
\* other text here is not JSON
Unmarshal(data) ==
  LET n == Len(data)
  IN IF data = <<"n", "u", "l", "l">> THEN [ok |-> TRUE, value |-> Nil]
     ELSE IF data = <<"t", "r", "u", "e">> THEN [ok |-> TRUE, value |-> GoBool(TRUE)]
     ELSE IF data = <<"f", "a", "l", "s", "e">> THEN [ok |-> TRUE, value |-> GoBool(FALSE)]
     ELSE IF /\ n >= 2 /\ data[1] = Quote /\ data[n] = Quote
             /\ \A i \in 2..(n - 1) : data[i] \notin {Quote, "\\"}
     THEN [ok |-> TRUE, value |-> Str(SubSeq(data, 2, n - 1))]
     ELSE IF /\ n >= 1 /\ \A i \in 1..n : data[i] \in DigitSet
             /\ (n = 1 \/ data[1] # "0")
     THEN [ok |-> TRUE, value |-> GoFloat64(2 * ParseUint(data))]
     ELSE [ok |-> FALSE, value |-> Nil]

(***************************************************************************)
(* Test.                                                                   *)
(***************************************************************************)
NoError == <<>>

\* fmt.Errorf(prefix + "%v", err)
Wrap(prefix, err) == Errorf(prefix, <<>>) \o err

NoRequest == [sent |-> FALSE]

\* Test returning err before the handler is invoked
TestReturn(e, err) ==
  [ok |-> FALSE, msg |-> err, r |-> e, invoked |-> FALSE, request |-> NoRequest,
   codeError |-> NoError, headersError |-> NoError, bodyError |-> NoError,
   hlog |-> <<>>, blog |-> <<>>]

\* the body of the request: marshalled, raw, or none
requestBody(e, req) ==
  IF ~IsNil(req.Body)
  THEN LET m == Marshal(req.Body)
       IN IF ~m.ok
          THEN [ok |-> FALSE, body |-> <<>>,
                msg |-> Wrap("failed to marshal the testcase request body. ", m.msg)]
          ELSE [ok |-> TRUE, body |-> m.data, msg |-> NoError]
  ELSE IF ~req.RawBody.isNil
  THEN IF req.NoRawBodyVariableReplacement
       THEN [ok |-> TRUE, body |-> req.RawBody.data, msg |-> NoError]
       ELSE IF req.RawBody.err
       THEN [ok |-> FALSE, body |-> <<>>,
             msg |-> Wrap("error while reading raw body. ", Errorf("%v", <<Str(<<"E","O","F">>)>>))]
       ELSE LET rep == replaceVars(e, req.RawBody.data)
            IN IF ~rep.ok
               THEN [ok |-> FALSE, body |-> <<>>,
                     msg |-> Wrap("error while replacing variables in raw body. ", rep.msg)]
               ELSE [ok |-> TRUE, body |-> rep.str, msg |-> NoError]
  ELSE [ok |-> TRUE, body |-> <<>>, msg |-> NoError]

\* replaceVars unless the testcase says not to
replaceUnless(e, no, str) ==
  IF no THEN [ok |-> TRUE, msg |-> NoError, str |-> str] ELSE replaceVars(e, str)

RECURSIVE valuesLoop(_, _, _, _, _, _)
\* the loop over the values of one request header, from value i on
valuesLoop(e, req, k, values, i, header) ==
  IF i > Len(values) THEN [ok |-> TRUE, msg |-> NoError, header |-> header, panic |-> FALSE]
  ELSE LET value == replaceUnless(e, req.NoHeadersVariableReplacement, values[i])
       IN IF ~value.ok
          THEN [ok |-> FALSE, header |-> header, panic |-> FALSE,
                msg |-> Wrap("error while replacing variables in header value. ", value.msg)]
          ELSE IF header.isNil
          THEN [ok |-> FALSE, header |-> header, panic |-> TRUE,
                msg |-> Errorf("assignment to entry in nil map", <<>>)]
          ELSE valuesLoop(e, req, k, values, i + 1, HeaderAdd(header, k, value.str))

RECURSIVE headersLoop(_, _, _, _)
\* the loop over the request headers not yet visited, in any order
headersLoop(e, req, keys, header) ==
  IF keys = {} THEN {[ok |-> TRUE, msg |-> NoError, header |-> header, panic |-> FALSE]}
  ELSE UNION {
         LET k == replaceUnless(e, req.NoHeadersVariableReplacement, key)
         IN IF ~k.ok
            THEN {[ok |-> FALSE, header |-> header, panic |-> FALSE,
                   msg |-> Wrap("error while replacing variables in header name. ", k.msg)]}
            ELSE LET added == valuesLoop(e, req, k.str, req.Headers[key], 1,
                                         HeaderDel(header, k.str))
                 IN IF ~added.ok THEN {added}
                    ELSE headersLoop(e, req, keys \ {key}, added.header)
         : key \in keys }

\* http.NewRequest: the method has to be a token
validMethod(method) == Len(method) > 0 /\ \A i \in 1..Len(method) : method[i] \in TokenChars

\* the comparison of the response headers, when the testcase expects some
checkHeaders(e, res, response) ==
  IF IsNil(res.Headers) THEN {[r |-> e, err |-> NoError, log |-> <<>>]}
  ELSE { [r |-> o.r, log |-> o.log,
          err |-> IF o.ok THEN NoError ELSE Wrap("response headers does not match. ", o.msg)]
         : o \in compare(e, res.Headers, HeaderValue(response.Header), <<>>) }

\* the comparison of the response body: raw, or decoded
checkBody(e, res, response) ==
  IF ~IsNil(res.RawBody)
  THEN { [r |-> o.r, log |-> o.log, err |-> o.msg]
         : o \in compare(e, res.RawBody, Str(response.Body), <<>>) }
  ELSE IF Len(response.Body) > 0 /\ ~Unmarshal(response.Body).ok
  THEN {[r |-> e, log |-> <<>>,
         err |-> Wrap("cannot unmarshal response body. ",
                      Errorf("%v", <<Str(response.Body)>>))]}
  ELSE LET responseBody == IF Len(response.Body) > 0 THEN Unmarshal(response.Body).value
                           ELSE Nil
       IN { [r |-> o.r, log |-> o.log, err |-> o.msg]
            : o \in compare(e, res.Object, responseBody, <<>>) }

\* an error that reports only the first failing check (C1 tells it from the code's)
buildError_firstOnly(codeError, headersError, bodyError) ==
  IF codeError # NoError THEN codeError
  ELSE IF headersError # NoError THEN headersError
  ELSE bodyError

\* the error built from the three possible errors on code, headers and body
buildError(codeError, headersError, bodyError) ==
  IF codeError = NoError /\ headersError = NoError /\ bodyError = NoError THEN NoError
  ELSE TrimSuffixNL((IF codeError # NoError THEN codeError \o <<NL>> ELSE <<>>)
                    \o (IF headersError # NoError THEN headersError \o <<NL>> ELSE <<>>)
                    \o bodyError)

\* checks that compare the body before the headers (C29 tells it from the code's)
checkResponse_bodyFirst(e, res, request, response) ==
  LET codeError ==
        IF res.Code # AnyCode /\ res.Code # response.StatusCode
        THEN Errorf("response code does not match. Expected %d, got %d",
                    <<GoInt(res.Code), GoInt(response.StatusCode)>>)
        ELSE NoError
  IN UNION { { [ok |-> buildError(codeError, h.err, b.err) = NoError,
                msg |-> buildError(codeError, h.err, b.err),
                r |-> h.r, invoked |-> TRUE, request |-> request,
                codeError |-> codeError, headersError |-> h.err, bodyError |-> b.err,
                hlog |-> h.log, blog |-> b.log]
              : h \in checkHeaders(b.r, res, response) }
            : b \in checkBody(e, res, response) }

\* the checks of the response the handler wrote to request
checkResponse(e, res, request, response) ==
  LET codeError ==
        IF res.Code # AnyCode /\ res.Code # response.StatusCode
        THEN Errorf("response code does not match. Expected %d, got %d",
                    <<GoInt(res.Code), GoInt(response.StatusCode)>>)
        ELSE NoError
  IN UNION { { [ok |-> buildError(codeError, h.err, b.err) = NoError,
                msg |-> buildError(codeError, h.err, b.err),
                r |-> b.r, invoked |-> TRUE, request |-> request,
                codeError |-> codeError, headersError |-> h.err, bodyError |-> b.err,
                hlog |-> h.log, blog |-> b.log]
              : b \in checkBody(h.r, res, response) }
            : h \in checkHeaders(e, res, response) }

\* Test once its preconditions hold: the request is built and sent, the response
\* checked
runTest(e, testcase, response) ==
  LET req == testcase.Request
      body == requestBody(e, req)
      path == replaceUnless(e, req.NoPathVariableReplacement, req.Path)
  IN IF ~body.ok THEN {TestReturn(e, body.msg)}
     ELSE IF ~path.ok
     THEN {TestReturn(e, Wrap("error while replacing variables in path. ", path.msg))}
     ELSE IF ~validMethod(req.Method)
     THEN {TestReturn(e, Wrap("failed to build HTTP request. ",
                              Errorf("net/http: invalid method %q", <<Str(req.Method)>>)))}
     ELSE UNION {
            IF ~h.ok THEN {TestReturn(e, h.msg)}
            ELSE checkResponse(e, testcase.Response,
                               [sent |-> TRUE, Method |-> req.Method, Path |-> path.str,
                                Header |-> h.header, Body |-> body.body],
                               response)
            : h \in headersLoop(e, req, DOMAIN req.Headers,
                                cloneHeader(e.defaultHeaders)) }

\* a Test that wants a marshaler only when there is a body to marshal (C17 tells it
\* from the code's)
Test_lazyMarshaler(e, testcase, response) ==
  LET req == testcase.Request
  IN IF ~e.httpHandler THEN {TestReturn(e, Errorf("nil HTTP handler", <<>>))}
     ELSE IF ~e.marshaler /\ ~IsNil(req.Body) THEN {TestReturn(e, Errorf("nil marshaler", <<>>))}
     ELSE IF ~e.unmarshaler THEN {TestReturn(e, Errorf("nil unmarshaler", <<>>))}
     ELSE IF req.Method = <<>>
     THEN {TestReturn(e, Errorf("incomplete testcase. Missing HTTP method", <<>>))}
     ELSE IF req.Path = <<>>
     THEN {TestReturn(e, Errorf("incomplete testcase. Missing URL path", <<>>))}
     ELSE runTest(e, testcase, response)

\* r.Test(testcase), the handler answering response when it is invoked
Test(e, testcase, response) ==
  LET req == testcase.Request
  IN IF ~e.httpHandler THEN {TestReturn(e, Errorf("nil HTTP handler", <<>>))}
     ELSE IF ~e.marshaler THEN {TestReturn(e, Errorf("nil marshaler", <<>>))}
     ELSE IF ~e.unmarshaler THEN {TestReturn(e, Errorf("nil unmarshaler", <<>>))}
     ELSE IF req.Method = <<>>
     THEN {TestReturn(e, Errorf("incomplete testcase. Missing HTTP method", <<>>))}
     ELSE IF req.Path = <<>>
     THEN {TestReturn(e, Errorf("incomplete testcase. Missing URL path", <<>>))}
     ELSE runTest(e, testcase, response)

(***************************************************************************)
(* The operations as actions.  last records the operation just made: its  *)
(* arguments, the engine before it and what it returned.                   *)
(***************************************************************************)
Init ==
  /\ r = NewRehapt
  /\ last = [op |-> "NewRehapt"]
  /\ steps = 0

\* one more operation on the engine
Step == steps < MaxSteps /\ steps' = steps + 1

\* r.SetVariable(name, value)
SetVariableOp(names, values) ==
  \E name \in names, value \in values :
    LET res == SetVariable(r, name, value)
    IN /\ Step
       /\ r' = res.r
       /\ last' = [op |-> "SetVariable", name |-> name, value |-> value, before |-> r,
                   ok |-> res.ok, msg |-> res.msg]

\* r.SetStoreShortcutBounds(prefix, suffix)
SetStoreShortcutBoundsOp(bounds) ==
  \E b \in bounds :
    LET res == SetStoreShortcutBounds(r, b[1], b[2])
    IN /\ Step
       /\ r' = res.r
       /\ last' = [op |-> "SetStoreShortcutBounds", prefix |-> b[1], suffix |-> b[2],
                   before |-> r, ok |-> res.ok, msg |-> res.msg]

\* r.compare(expected, actual)
CompareOp(expecteds, actuals) ==
  \E expected \in expecteds, actual \in actuals :
    \E o \in compare(r, expected, actual, <<>>) :
      /\ Step
      /\ r' = o.r
      /\ last' = [op |-> "compare", expected |-> expected, actual |-> actual, before |-> r,
                  ok |-> o.ok, msg |-> o.msg, log |-> o.log]

\* r.Test(testcase) with a handler that answers one of responses
TestOp(testcases, responses) ==
  \E testcase \in testcases, response \in responses :
    \E o \in Test(r, testcase, response) :
      /\ Step
      /\ r' = o.r
      /\ last' = [op |-> "Test", testcase |-> testcase, response |-> response, before |-> r,
                  ok |-> o.ok, msg |-> o.msg, invoked |-> o.invoked, request |-> o.request,
                  codeError |-> o.codeError, headersError |-> o.headersError,
                  bodyError |-> o.bodyError, hlog |-> o.hlog, blog |-> o.blog]

(***************************************************************************)
(* Spec: the variable store, the store shortcut and the entry rules of    *)
(* compare.                                                                *)
(***************************************************************************)
X == <<"x">>

Y == <<"y">>

Names == {X, Y, <<"a", " ", "b">>, <<>>}

\* the numbers a decoded JSON body holds
Numbers == { GoFloat64(2 * n) : n \in 1..MaxInt }

Actuals ==
  { Nil, Str(<<"a">>), Str(<<"$", "y", "$">>), Str(<<"_", "y", "_">>),
    GoBool(TRUE), Map(Map1(<<"k">>, Str(<<"a">>))), Slice(<<Str(<<"a">>)>>) } \cup Numbers

Expecteds ==
  { Nil, Any, LoadVar(X),
    Str(<<"$", "x", "$">>), Str(<<"a", "$", "x", "$">>), Str(<<"$", "x", "$", "a">>),
    Str(<<"$", "a", " ", "b", "$">>), Str(<<"$", "$">>), Str(<<"(", "x", ")">>),
    Str(<<"_", "x", "_">>), Str(<<"a">>) }
  \cup { StoreVar(name) : name \in Names \ {Y} }
  \cup { RegexpVars(<<"^", "(", ".", "*", ")", "$">>, names)
         : names \in { [g \in {1} |-> X], [g \in {0, 1} |-> IF g = 0 THEN <<"a", " ", "b">> ELSE X] } }

\* prefix and suffix
Bounds == { <<<<"(">>, <<")">>>>, <<<<"_">>, <<"_">>>>, <<<<>>, <<"$">>>>, <<<<"$">>, <<>>>> }

SetVariableStep == SetVariableOp({Y, <<"a", " ", "b">>}, {Nil, Str(<<"a">>)})

SetStoreShortcutBoundsStep == SetStoreShortcutBoundsOp(Bounds)

CompareStep == CompareOp(Expecteds, Actuals)

Next == SetVariableStep \/ SetStoreShortcutBoundsStep \/ CompareStep

Spec == Init /\ [][Next]_vars

(***************************************************************************)
(* Claims checked under Spec.                                              *)
(***************************************************************************)
\* the names ^[A-Za-z0-9]+$ matches
NameMatches(name) == name # <<>> /\ \A i \in 1..Len(name) : name[i] \in Alnum

\* the variables of the two engines agree on every name but name
SameButFor(e1, e2, name) ==
  /\ (DOMAIN e1.variables) \ {name} = (DOMAIN e2.variables) \ {name}
  /\ \A n \in (DOMAIN e1.variables) \ {name} : e1.variables[n] = e2.variables[n]

IsCompare == last.op = "compare"

\* C3: once compare(StoreVar(x), v) has succeeded, the next compare(LoadVar(x), v)
\* succeeds, and compare(LoadVar(x), w) with strings v # w fails with a string
\* mismatch.
C3_StoreLoadRoundTrip ==
  [][ ( /\ IsCompare /\ last.expected.type = "StoreVar" /\ last.ok
        /\ last'.op = "compare" /\ steps' = steps + 1
        /\ last'.expected = LoadVar(last.expected.s) )
      => /\ (last'.actual = last.actual => last'.ok)
         /\ ( ( /\ last.actual.type = "string" /\ last'.actual.type = "string"
                /\ last'.actual # last.actual )
              => /\ ~last'.ok
                 /\ last'.msg[1].fmt = "strings does not match. Expected '%v', got '%v'" )
    ]_vars

\* C4: compare(StoreVar(name), actual) with a non-null actual: a name matching
\* ^[A-Za-z0-9]+$ makes it succeed, GetVariable(name) is then actual and every other
\* variable is unchanged; any other name makes it fail with 'invalid variable name
\* <name>' and leaves the variable store unchanged.
C4_StoreVar ==
  (IsCompare /\ last.expected.type = "StoreVar" /\ ~IsNil(last.actual)) =>
    IF NameMatches(last.expected.s)
    THEN /\ last.ok
         /\ last.expected.s \in DOMAIN r.variables
         /\ GetVariable(r, last.expected.s) = last.actual
         /\ SameButFor(r, last.before, last.expected.s)
    ELSE /\ ~last.ok
         /\ last.msg = Errorf("invalid variable name %v", <<Str(last.expected.s)>>)
         /\ r.variables = last.before.variables

\* C4's case: a map is stored under x while y, defined before, keeps its value
C4_Witness ==
  /\ IsCompare /\ last.expected = StoreVar(X) /\ last.actual.kind = "map"
  /\ Y \in DOMAIN last.before.variables /\ X \notin DOMAIN last.before.variables
  /\ r.variables[X] = last.actual /\ r.variables[Y] = last.before.variables[Y]

\* whether the whole of s is prefix + name + suffix, name in [a-zA-Z0-9]+
ShortcutForm(re, s) ==
  \E i \in 1..Len(s), j \in 1..Len(s) :
    /\ i <= j
    /\ s = re.prefix \o SubSeq(s, i, j) \o re.suffix
    /\ i = Len(re.prefix) + 1
    /\ NameMatches(SubSeq(s, i, j))

ShortcutName(re, s) == SubSeq(s, Len(re.prefix) + 1, Len(s) - Len(re.suffix))

\* whether s holds a load token
HasLoadToken(re, s) ==
  \E i \in 1..Len(s), j \in 1..Len(s) :
    /\ i <= j
    /\ NameMatches(SubSeq(s, i, j))
    /\ i > Len(re.prefix) /\ SubSeq(s, i - Len(re.prefix), i - 1) = re.prefix
    /\ j + Len(re.suffix) <= Len(s) /\ SubSeq(s, j + 1, j + Len(re.suffix)) = re.suffix

\* C5: a plain string expected s against a non-null actual: when the whole of s is
\* prefix+name+suffix, actual is stored under name and the comparison succeeds
\* whatever the shape of actual; otherwise nothing is stored, a non-string actual
\* fails and a string actual is compared with s as a literal (load tokens of s,
\* if it has any, replaced first).
C5_StoreShortcut ==
  (IsCompare /\ last.expected.type = "string" /\ ~IsNil(last.actual)) =>
    IF ShortcutForm(last.before.variableStoreRegexp, last.expected.s)
    THEN LET name == ShortcutName(last.before.variableStoreRegexp, last.expected.s)
         IN /\ last.ok
            /\ name \in DOMAIN r.variables
            /\ r.variables[name] = last.actual
            /\ SameButFor(r, last.before, name)
    ELSE /\ r = last.before
         /\ last.actual.kind # "string" =>
              /\ ~last.ok
              /\ last.msg[1].fmt = "different kinds. Expected string, got %v"
         /\ ( /\ last.actual.kind = "string"
              /\ ~HasLoadToken(last.before.variableLoadRegexp, last.expected.s) )
            => (last.ok <=> last.actual.s = last.expected.s)
         /\ ( /\ last.actual.kind = "string"
              /\ HasLoadToken(last.before.variableLoadRegexp, last.expected.s) )
            => LET rep == replaceVars(last.before, last.expected.s)
               IN last.ok <=> (rep.ok /\ rep.str = last.actual.s)

\* C5's case: "_x_", a store shortcut once the bounds are "_" and "_", stores a map
\* although it is a load token too
C5_Witness ==
  /\ IsCompare /\ last.expected = Str(<<"_", "x", "_">>) /\ last.actual.kind = "map"
  /\ last.before.variableStoreRegexp = Pattern(<<"_">>, <<"_">>)
  /\ X \notin DOMAIN last.before.variables
  /\ last.ok /\ r.variables[X] = last.actual

\* C9 as stated: compare(Any, actual) succeeds for every actual, a null one too,
\* and never changes the variable store.
C9_AnyAlwaysSucceeds ==
  (IsCompare /\ last.expected = Any) => (last.ok /\ r = last.before)

\* C9 as amended: compare(Any, actual) succeeds for every non-null actual; against a
\* null actual it fails with 'expected {Any} but got nil'; it never changes the
\* variable store.
C9_AnySucceedsNonNil ==
  (IsCompare /\ last.expected = Any) =>
    /\ r = last.before
    /\ IF IsNil(last.actual)
       THEN ~last.ok /\ last.msg = Errorf("expected %v but got nil", <<Any>>)
       ELSE last.ok

\* C9's case: Any against a map and a store holding a variable
C9_Witness ==
  /\ IsCompare /\ last.expected = Any /\ last.actual.kind = "map" /\ last.ok
  /\ DOMAIN r.variables # {}

\* C10: compare(null, null) succeeds; compare(null, a) fails with 'expected is nil but
\* got <a>' and compare(e, null) with 'expected <e> but got nil', no comparator being
\* invoked and the variable store unchanged.
C10_NilRules ==
  IsCompare =>
    /\ (IsNil(last.expected) /\ IsNil(last.actual)) => last.ok /\ r = last.before
    /\ (IsNil(last.expected) /\ ~IsNil(last.actual)) =>
         /\ ~last.ok
         /\ last.msg = Errorf("expected is nil but got %v", <<last.actual>>)
         /\ last.log = <<>> /\ r = last.before
    /\ (~IsNil(last.expected) /\ IsNil(last.actual)) =>
         /\ ~last.ok
         /\ last.msg = Errorf("expected %v but got nil", <<last.expected>>)
         /\ last.log = <<>> /\ r = last.before

\* C10's case: a store matcher against a null actual stores nothing
C10_Witness ==
  /\ IsCompare /\ last.expected = StoreVar(X) /\ IsNil(last.actual)
  /\ ~last.ok /\ X \notin DOMAIN r.variables

\* C15: in every state reached by SetVariable calls, comparisons (StoreVar, store
\* shortcut strings, RegexpVars) and changes of the store shortcut bounds, every name
\* of the variable store matches ^[A-Za-z0-9]+$.
C15_ValidNames == \A name \in DOMAIN r.variables : NameMatches(name)

\* C15's case: with the bounds set to ( and ), "(x)" has stored its actual under x
\* through the shortcut, which does not call SetVariable
C15_Witness ==
  /\ IsCompare /\ last.expected = Str(<<"(", "x", ")">>) /\ last.ok
  /\ last.before.variableStoreRegexp = Pattern(<<"(">>, <<")">>)
  /\ X \notin DOMAIN last.before.variables /\ X \in DOMAIN r.variables
  /\ C15_ValidNames

\* C23: compare(LoadVar(name), actual) never changes the variable store, whatever
\* is stored under name and whether the comparison succeeds or fails.
C23_LoadVarPure == (IsCompare /\ last.expected.type = "LoadVar") => r = last.before

(***************************************************************************)
(* One comparison on inputs drawn at the start: the specifications of the *)
(* comparators that are pure functions of the engine and their operands.   *)
(***************************************************************************)
CompareInit(engines, expecteds, actuals) ==
  /\ r \in engines
  /\ last \in { [op |-> "input", expected |-> expected, actual |-> actual]
                : expected \in expecteds, actual \in actuals }
  /\ steps = 0

\* r.compare(expected, actual) on the inputs drawn
CompareInput ==
  /\ last.op = "input"
  /\ \E o \in compare(r, last.expected, last.actual, <<>>) :
       /\ r' = o.r
       /\ steps' = steps + 1
       /\ last' = [op |-> "compare", expected |-> last.expected, actual |-> last.actual,
                   before |-> r, ok |-> o.ok, msg |-> o.msg, log |-> o.log]

(***************************************************************************)
(* SpecMap: M and PartialM against decoded objects.                        *)
(***************************************************************************)
K == <<"k">>

L == <<"l">>

\* the functions from a subset of keys to values
MapsOver(keys, values) == UNION { [ks -> values] : ks \in SUBSET keys }

ExpectedMaps ==
  MapsOver({K, L}, {Str(<<"a">>), Any, Str(<<"$", "x", "$">>)})
  \cup { Map1(K, PartialM(Map1(K, Str(<<"a">>)))), Map1(K, Nil) }

ActualMaps ==
  MapsOver({K, L, <<"m">>}, {Str(<<"a">>), Str(<<"b">>)})
  \cup { Map1(K, Map(Map2(K, Str(<<"a">>), L, Str(<<"b">>)))), Map1(K, Nil) }

MapExpecteds == { M(m) : m \in ExpectedMaps } \cup { PartialM(m) : m \in ExpectedMaps }

MapActuals ==
  { Map(m) : m \in ActualMaps }
  \cup { Str(<<"a">>), Slice(<<Str(<<"a">>)>>), IntMap([k \in {1} |-> Str(<<"a">>)]) }

InitMap == CompareInit({NewRehapt}, MapExpecteds, MapActuals)

SpecMap == InitMap /\ [][CompareInput]_vars

\* whether the expected value ev compares successfully against av
ValueOk(e, ev, av) == \A o \in compare(e, ev, av, <<>>) : o.ok

\* whether a is a map whose keys are strings
IsStringMap(a) == a.kind = "map" /\ a.key = "string"

SeqsUpTo(s) == UNION { [1..n -> s] : n \in 0..MaxLen }

Scalars == { Str(<<"a">>), Str(<<"b">>), GoInt(1), GoFloat64(3), GoBool(TRUE) }

UnsortedItems == Scalars \cup { Any, StoreVar(X) }

\* what a decoder hands over: strings, floats, bools; a typed decoder, ints too
UnsortedElements == { Str(<<"a">>), Str(<<"b">>), GoFloat64(2), GoFloat64(3), GoInt(1), GoBool(TRUE) }

UnsortedExpecteds == { UnsortedS(items) : items \in SeqsUpTo(UnsortedItems) }

UnsortedActuals == { Slice(items) : items \in SeqsUpTo(UnsortedElements) } \cup { Str(<<"a">>) }

InitUnsorted == CompareInit({NewRehapt}, UnsortedExpecteds, UnsortedActuals)

SpecUnsorted == InitUnsorted /\ [][CompareInput]_vars

\* the one-to-one assignments of 1..n
Perms(n) == { f \in [1..n -> 1..n] : \A i, j \in 1..n : i # j => f[i] # f[j] }

\* s rearranged by f
Permuted(s, f) == [i \in 1..Len(s) |-> s[f[i]]]

\* C7: compare(UnsortedS(items), actual) on a sequence succeeds iff the lengths are
\* equal and some one-to-one assignment of the items to the actual elements has
\* every pair comparing successfully.
C7_PerfectMatching ==
  (IsCompare /\ last.expected.type = "UnsortedS" /\ last.actual.kind = "slice") =>
    LET items == last.expected.items
        actual == last.actual.items
    IN last.ok <=>
         /\ Len(items) = Len(actual)
         /\ \E f \in Perms(Len(items)) :
              \A i \in 1..Len(items) : ValueOk(last.before, items[i], actual[f[i]])

\* whether two scalars are the same string, the same bool or the same number
ScalarEq(x, y) ==
  \/ x.kind = "string" /\ y.kind = "string" /\ x.s = y.s
  \/ x.kind = "bool" /\ y.kind = "bool" /\ x.b = y.b
  \/ /\ x.kind \in IntKinds \cup FloatKinds
     /\ y.kind \in IntKinds \cup FloatKinds
     /\ (IF x.kind \in IntKinds THEN 2 * x.n ELSE x.h) = (IF y.kind \in IntKinds THEN 2 * y.n ELSE y.h)

\* C8: with scalar literals as items the verdict of compare(UnsortedS(items), actual)
\* is the same for every permutation of actual and of items, and it is success iff
\* items and actual are equal as multisets.
C8_PermutationInvariant ==
  ( /\ IsCompare /\ last.expected.type = "UnsortedS" /\ last.actual.kind = "slice"
    /\ \A i \in 1..Len(last.expected.items) : last.expected.items[i] \in Scalars ) =>
    LET items == last.expected.items
        actual == last.actual.items
    IN /\ \A f \in Perms(Len(items)), g \in Perms(Len(actual)) :
            \A o \in compare(last.before, UnsortedS(Permuted(items, f)),
                             Slice(Permuted(actual, g)), <<>>) : o.ok = last.ok
       /\ last.ok <=>
            /\ Len(items) = Len(actual)
            /\ \E f \in Perms(Len(items)) :
                 \A i \in 1..Len(items) : ScalarEq(items[i], actual[f[i]])

IsUnsorted ==
  /\ IsCompare /\ last.expected.type = "UnsortedS" /\ last.actual.kind = "slice"
  /\ Len(last.expected.items) = Len(last.actual.items)

\* expected item i compares successfully with the actual element at index idx (both
\* 0-based); the items of SpecUnsorted load no variable, so the store is no matter
Matches(i, idx) ==
  \A o \in compare(last.before, last.expected.items[i + 1], last.actual.items[idx + 1], <<>>) : o.ok

\* the actual indexes, ascending, that the expected items 0..i-1 have left: each item
\* takes the lowest index left that it matches
Left[i \in 0..(MaxLen + 1)] ==
  IF i = 0 THEN [k \in 1..Len(last.actual.items) |-> k - 1]
  ELSE IF i > Len(last.expected.items) THEN <<>>
  ELSE LET found == { k \in 1..Len(Left[i - 1]) : Matches(i - 1, Left[i - 1][k]) }
       IN IF found = {} THEN Left[i - 1] ELSE RemoveAt(Left[i - 1], SetMin(found))

\* the expected indexes that match none of the indexes left to them
NotFound ==
  { i \in 0..(Len(last.expected.items) - 1) :
      \A k \in 1..Len(Left[i]) : ~Matches(i, Left[i][k]) }

\* the lines of the expected items 0..i-1 that are not found
NotFoundLines[i \in 0..(MaxLen + 1)] ==
  IF i = 0 THEN <<>>
  ELSE IF (i - 1) \in NotFound
  THEN Append(NotFoundLines[i - 1],
              Errorf("expected element %v at index %v not found",
                     <<last.expected.items[i], GoInt(i - 1)>>))
  ELSE NotFoundLines[i - 1]

\* C25: unsortedSliceCompare on equal lengths: each expected item in order takes the
\* lowest actual index not yet taken that it compares successfully with; the expected
\* items not found are as many as the actual indexes left; the comparison succeeds iff
\* there are none, and else its error is one line for each item not found, with its
\* index, in ascending order, and then one line with the actual indexes left.
C25_GreedyAccounting ==
  IsUnsorted =>
    LET n == Len(last.expected.items)
    IN /\ Cardinality(NotFound) = Len(Left[n])
       /\ last.ok <=> (NotFound = {} /\ Len(Left[n]) = 0)
       /\ ~last.ok =>
            last.msg = Join(Append(NotFoundLines[n],
                                   Errorf("actual elements at indexes %v not found",
                                          <<Slice([k \in 1..Len(Left[n]) |-> GoInt(Left[n][k])])>>)))

\* C25's case: {"b", "b"} against ["a", "b"]: the first item takes index 1, the second
\* is not found and index 0 is left
C25_Witness ==
  /\ IsUnsorted /\ ~last.ok
  /\ last.expected = UnsortedS(<<Str(<<"b">>), Str(<<"b">>)>>)
  /\ last.actual = Slice(<<Str(<<"a">>), Str(<<"b">>)>>)
  /\ NotFound = {1} /\ Left[2] = <<0>>

(***************************************************************************)
(* SpecNumber: the numeric literals and NumberDelta against numbers of     *)
(* every kind.                                                             *)
(***************************************************************************)
\* an integer literal of each kind that holds it; float32 holds the small ones exactly
NumberLiterals(n) ==
  { GoInt(n), GoInt64(n), GoFloat64(2 * n), [kind |-> "float32", type |-> "float32", h |-> 2 * n] }
  \cup (IF n >= 0 THEN { GoUint(n), GoUint64(n) } ELSE {})

NumberExpecteds ==
  UNION { NumberLiterals(n) : n \in (-MaxInt)..MaxInt }
  \cup { NumberDelta(v, d) : v \in {2 * n : n \in 0..MaxInt} \cup {3}, d \in 0..MaxInt }

\* what a decoder hands over: the integers up to MaxInt + 1 in every kind, the
\* halves between them, and values that are no numbers
NumberActuals ==
  UNION { NumberLiterals(n) : n \in (-MaxInt)..(MaxInt + 1) }
  \cup { GoFloat64(h) : h \in (-2 * MaxInt - 1)..(2 * MaxInt + 3) }
  \cup { Str(<<"1">>), GoBool(TRUE) }

InitNumber == CompareInit({NewRehapt}, NumberExpecteds, NumberActuals)

SpecNumber == InitNumber /\ [][CompareInput]_vars

\* whether a value is a number
IsNumber(v) == v.kind \in IntKinds \cup UintKinds \cup FloatKinds

\* the number a numeric value of the model holds, in halves
Halves(v) == IF v.kind \in FloatKinds THEN v.h ELSE 2 * v.n

\* C11: compare(NumberDelta{v, d}, actual) with a numeric actual of any kind succeeds
\* iff |v - actual| <= d, the bound included, above v and below v alike; an actual
\* that is no number fails with a different-kinds error.
C11_Tolerance ==
  (IsCompare /\ last.expected.type = "NumberDelta") =>
    /\ r = last.before
    /\ IF IsNumber(last.actual)
       THEN last.ok <=> /\ Halves(last.actual) - last.expected.Value <= last.expected.Delta
                        /\ last.expected.Value - Halves(last.actual) <= last.expected.Delta
       ELSE /\ ~last.ok
            /\ last.msg = NumberKindsMsg(last.actual)

\* C11's case: an integer actual below v by exactly d > 0 is accepted
C11_Witness ==
  /\ IsCompare /\ last.expected.type = "NumberDelta" /\ last.ok
  /\ last.actual.kind \in IntKinds /\ last.expected.Delta > 0
  /\ last.expected.Value - Halves(last.actual) = last.expected.Delta

\* the formats of the mismatch errors of the numeric comparators
MismatchFormats ==
  { "integers does not match. Expected %v, got %v",
    "uintegers does not match. Expected %v, got %v",
    "floats does not match. Expected %v, got %v" }

\* C12: a numeric literal holding the integer n compared with an actual holding n
\* succeeds whichever numeric kinds the two sides have; compared with an actual
\* holding n + 1 it fails with a mismatch error naming both values.
C12_NumericRoundTrip ==
  (IsCompare /\ IsNumber(last.expected) /\ IsNumber(last.actual)) =>
    /\ Halves(last.actual) = Halves(last.expected) => last.ok
    /\ Halves(last.actual) = Halves(last.expected) + 2 =>
         /\ ~last.ok
         /\ last.msg \in { Errorf(f, <<last.expected, last.actual>>) : f \in MismatchFormats }

(***************************************************************************)
(* SpecTest: testcases run one after the other on one engine, the only     *)
(* operations that define variables being the tests themselves.            *)
(***************************************************************************)
CatId == <<"c", "a", "t", "i", "d">>

Hid == <<"h", "i", "d">>

ApiCat == <<"/", "a", "p", "i", "/", "c", "a", "t">>

\* /api/cat/_catid_
CatPath == ApiCat \o <<"/", "_">> \o CatId \o <<"_">>

D123 == <<"1", "2", "3">>

XId == <<"X", "-", "I", "d">>

\* GET /api/cat expecting code 200, no header and an empty body
BaseCase ==
  [Request  |-> [Method |-> <<"G", "E", "T">>, Path |-> ApiCat, Headers |-> EmptyMap,
                 Body |-> Nil, RawBody |-> NoReader,
                 NoPathVariableReplacement |-> FALSE,
                 NoHeadersVariableReplacement |-> FALSE,
                 NoRawBodyVariableReplacement |-> FALSE],
   Response |-> [Headers |-> Nil, Code |-> 200, Object |-> Nil, RawBody |-> Nil]]

\* the expected headers: X-Id with the one value v
ExpectXId(v) == M(Map1(XId, S(<<v>>)))

TestCases ==
  { [BaseCase EXCEPT !.Response.Object = StoreVar(CatId)],
    [BaseCase EXCEPT !.Response.Headers = ExpectXId(Str(<<"a">>)),
                     !.Response.Object = Str(<<"$">> \o CatId \o <<"$">>)],
    [BaseCase EXCEPT !.Response.Headers =
                       PartialM(Map2(XId, S(<<Str(<<"$">> \o Hid \o <<"$">>)>>),
                                     <<"X", "-", "B">>, S(<<Str(<<"a">>)>>))),
                     !.Response.Object = Str(<<"a">>)],
    [BaseCase EXCEPT !.Request.Path = CatPath, !.Response.Code = AnyCode,
                     !.Response.Object = Any],
    [BaseCase EXCEPT !.Request.Path = CatPath, !.Request.NoPathVariableReplacement = TRUE,
                     !.Response.Object = Any],
    [BaseCase EXCEPT !.Request.Method = <<>>],
    [BaseCase EXCEPT !.Request.Path = <<>>],
    [BaseCase EXCEPT !.Request.RawBody = Reader(<<"_">> \o CatId \o <<"_">>, FALSE),
                     !.Request.Headers = Map1(<<"x", "-", "i", "d">>, <<<<"_">> \o CatId \o <<"_">>>>),
                     !.Response.RawBody = Str(<<Quote>> \o D123 \o <<Quote>>)] }

\* what the handler may answer
Responses ==
  { [StatusCode |-> code, Header |-> Header(Map1(XId, <<hb[1]>>)), Body |-> hb[2]]
    : code \in {200, 404},
      hb \in { <<D123, <<Quote>> \o D123 \o <<Quote>>>>,
               <<<<"a">>, <<Quote>> \o D123 \o <<Quote>>>>,
               <<D123, <<>>>>,
               <<D123, <<"x">>>> } }

TestStep == TestOp(TestCases, Responses)

SpecTest == Init /\ [][TestStep]_vars

IsTest == last.op = "Test"

\* C1: once the handler has been invoked, Test evaluates the code (unless AnyCode),
\* the headers (when some are expected) and the body, whatever the earlier checks
\* gave; it returns nil iff none failed, otherwise the failing checks' messages in
\* the order code, headers, body joined by newlines; what the headers and body
\* comparisons store is stored even when the code does not match.
C1_AllChecks ==
  (IsTest /\ last.invoked) =>
    LET res == last.testcase.Response
        failed == SelectSeq(<<last.codeError, last.headersError, last.bodyError>>,
                            LAMBDA err : err # NoError)
    IN /\ (last.codeError # NoError)
            <=> (res.Code # AnyCode /\ res.Code # last.response.StatusCode)
       /\ \E h \in checkHeaders(last.before, res, last.response) :
            \E b \in checkBody(h.r, res, last.response) :
              /\ last.headersError = h.err /\ last.hlog = h.log
              /\ last.bodyError = b.err /\ last.blog = b.log
              /\ r = b.r
       /\ (~IsNil(res.Headers)) => last.hlog # <<>>
       /\ last.ok <=> failed = <<>>
       /\ last.msg = Join(failed)

\* C1's case: the code, the headers and the body all fail, the message has the
\* three lines and the variable of the headers comparison is stored all the same
C1_Witness ==
  /\ IsTest /\ last.invoked /\ ~last.ok
  /\ last.codeError # NoError /\ last.headersError # NoError /\ last.bodyError # NoError
  /\ last.msg = last.codeError \o <<NL>> \o last.headersError \o <<NL>> \o last.bodyError
  /\ Hid \notin DOMAIN last.before.variables
  /\ Hid \in DOMAIN r.variables /\ r.variables[Hid] = Str(D123)

\* C2: a Test whose path is /api/cat/_catid_, run after a Test stored "123" under
\* catid, invokes the handler with the path /api/cat/123; run while catid is not
\* defined it fails with 'error while replacing variables in path. variable catid
\* is not defined' and the handler is not invoked.
C2_PathSubstitution ==
  ( /\ IsTest /\ last.testcase.Request.Path = CatPath
    /\ ~last.testcase.Request.NoPathVariableReplacement ) =>
    /\ ( /\ CatId \in DOMAIN last.before.variables
         /\ last.before.variables[CatId] = Str(D123) )
       => /\ last.invoked
          /\ last.request.Path = ApiCat \o <<"/">> \o D123
    /\ CatId \notin DOMAIN last.before.variables
       => /\ ~last.ok /\ ~last.invoked /\ r = last.before
          /\ last.msg = Errorf("error while replacing variables in path. ", <<>>)
                        \o Errorf("variable %v is not defined", <<Str(CatId)>>)

\* C2's case: the second of two tests, the first having stored "123" under catid
C2_Witness ==
  /\ IsTest /\ steps = 2 /\ last.testcase.Request.Path = CatPath
  /\ CatId \in DOMAIN last.before.variables /\ last.before.variables[CatId] = Str(D123)
  /\ last.invoked /\ last.request.Path = ApiCat \o <<"/">> \o D123

(***************************************************************************)
(* SpecStore: SetVariable, compare and Test in any order on one engine.    *)
(***************************************************************************)
\* the comparisons that store, load or do neither
StoreCompareStep ==
  CompareOp({ StoreVar(X), Str(<<"$", "y", "$">>), LoadVar(X), Str(<<"a">>),
              RegexpVars(<<"(", "a", ")">>, [g \in {1} |-> X]) },
            { Str(<<"a">>), Str(<<"$", "y", "$">>), GoBool(TRUE) })

\* the tests, answered with the code they expect
StoreTestStep == TestOp(TestCases, { response \in Responses : response.StatusCode = 200 })

SpecStore == Init /\ [][SetVariableStep \/ StoreCompareStep \/ StoreTestStep]_vars

RECURSIVE StoreNames(_, _)
\* the names an expected value asks to store under, the variables it loads being
\* those of e
StoreNames(e, x) ==
  IF IsNil(x) THEN {}
  ELSE IF x.type = "StoreVar" THEN {x.s}
  ELSE IF x.type = "string"
  THEN (IF ShortcutForm(e.variableStoreRegexp, x.s)
        THEN {ShortcutName(e.variableStoreRegexp, x.s)} ELSE {})
  ELSE IF x.type = "LoadVar"
  THEN (IF x.s \in DOMAIN e.variables THEN StoreNames(e, e.variables[x.s]) ELSE {})
  ELSE IF x.type = "RegexpVars" THEN { x.Vars[g] : g \in DOMAIN x.Vars }
  ELSE IF x.kind = "slice" THEN UNION { StoreNames(e, x.items[i]) : i \in 1..Len(x.items) }
  ELSE IF x.kind = "map" THEN UNION { StoreNames(e, x.m[k]) : k \in DOMAIN x.m }
  ELSE {}

\* the names the operation recorded in l asks to store under
StoredBy(l) ==
  IF l.op = "SetVariable" THEN {l.name}
  ELSE IF l.op = "compare" THEN StoreNames(l.before, l.expected)
  ELSE IF l.op = "Test"
  THEN StoreNames(l.before, l.testcase.Response.Headers)
       \cup StoreNames(l.before, l.testcase.Response.Object)
       \cup StoreNames(l.before, l.testcase.Response.RawBody)
  ELSE {}

\* C16: no operation removes a variable: over every call of Test, compare and
\* SetVariable the defined names only grow, each call starts from the store the call
\* before it left, and the value of a name changes only in a call that stores under
\* that name; so a variable stored by one Test is defined, with its value, at the
\* start of every later Test.
C16_StoreOnlyGrows ==
  [][ /\ DOMAIN r.variables \subseteq DOMAIN r'.variables
      /\ last'.before = r
      /\ \A name \in DOMAIN r.variables :
           r'.variables[name] # r.variables[name] => name \in StoredBy(last')
    ]_vars

\* C16's case: a second Test starts with the catid a first Test stored, stores hid,
\* and leaves catid as it was
C16_Witness ==
  /\ IsTest /\ steps = 2
  /\ CatId \in DOMAIN last.before.variables /\ Hid \notin DOMAIN last.before.variables
  /\ Hid \in DOMAIN r.variables /\ CatId \in DOMAIN r.variables
  /\ r.variables[CatId] = last.before.variables[CatId]

(***************************************************************************)
(* SpecReplace: replaceVars on a string and a variable store drawn at the  *)
(* start, called directly and by its callers.                              *)
(***************************************************************************)
\* what a string of the model is made of: text, and the load tokens of x and y
Pieces == { <<"_">>, <<"x">>, <<"y">>, <<"_", "x", "_">>, <<"_", "y", "_">> }

RECURSIVE Concat(_)
Concat(ps) == IF Len(ps) = 0 THEN <<>> ELSE ps[1] \o Concat(Tail(ps))

\* the strings of at most MaxLen + 1 pieces
ReplaceStrings == { Concat(ps) : ps \in UNION { [1..n -> Pieces] : n \in 0..(MaxLen + 1) } }

\* the engines whose store holds x, y, both or none
ReplaceEngines ==
  { [NewRehapt EXCEPT !.variables = vs] :
      vs \in MapsOver({X}, { Str(<<"a">>), Str(<<"_", "y", "_">>), GoInt(12), Nil,
                            Map(EmptyMap), Slice(<<>>) })
             \cup MapsOver({X, Y}, { Str(<<"_", "y", "_">>), GoBool(TRUE), GoFloat64(3), GoUint(3),
                                    Map(EmptyMap) }) }

InitReplace ==
  /\ r \in ReplaceEngines
  /\ last \in { [op |-> "input", s |-> s] : s \in ReplaceStrings }
  /\ steps = 0

\* r.replaceVars(s)
ReplaceVarsInput ==
  /\ last.op = "input"
  /\ LET rep == replaceVars(r, last.s)
     IN /\ r' = r
        /\ steps' = steps + 1
        /\ last' = [op |-> "replaceVars", s |-> last.s, before |-> r,
                    ok |-> rep.ok, msg |-> rep.msg, str |-> rep.str]

\* r.compare(s, actual) and r.compare(Regexp(s), actual)
ReplaceCompareInput ==
  /\ last.op = "input"
  /\ CompareOp({Str(last.s), Regexp(last.s)}, {Str(<<"a">>), GoBool(TRUE)})

\* r.Test of a testcase that has s as its path, as the name or the value of a
\* header, or as its raw body
ReplaceTestInput ==
  /\ last.op = "input"
  /\ TestOp({ [BaseCase EXCEPT !.Request.Path = last.s],
              [BaseCase EXCEPT !.Request.Headers = Map1(last.s, << <<"a">> >>)],
              [BaseCase EXCEPT !.Request.Headers = Map1(XId, <<last.s>>)],
              [BaseCase EXCEPT !.Request.RawBody = Reader(last.s, FALSE)] },
            { [StatusCode |-> 200, Header |-> Header(EmptyMap), Body |-> <<>>] })

SpecReplace ==
  InitReplace /\ [][ReplaceVarsInput \/ ReplaceCompareInput \/ ReplaceTestInput]_vars

RECURSIVE LoadTokens(_, _)
\* the tokens _name_ of s from position p on, left to right and without overlap
LoadTokens(s, p) ==
  IF p > Len(s) THEN <<>>
  ELSE LET ends == { q \in (p + 2)..Len(s) :
                       /\ s[p] = "_" /\ s[q] = "_"
                       /\ \A i \in (p + 1)..(q - 1) : s[i] \in Alnum }
       IN IF ends = {} THEN LoadTokens(s, p + 1)
          ELSE LET q == CHOOSE q \in ends : TRUE
               IN <<[start |-> p, end |-> q, name |-> SubSeq(s, p + 1, q - 1)]>>
                  \o LoadTokens(s, q + 1)

\* a natural number below 100 in base 10
Decimal(n) == IF n < 10 THEN <<Digits[n + 1]>> ELSE <<Digits[(n \div 10) + 1], Digits[(n % 10) + 1]>>

\* whether a variable may stand in a string, and how it is written there
Scalar(v) == v.type = "string" \/ v.kind = "bool" \/ IsNumber(v)

Shown(v) ==
  IF v.type = "string" THEN v.s
  ELSE IF v.kind = "bool" THEN (IF v.b THEN <<"t", "r", "u", "e">> ELSE <<"f", "a", "l", "s", "e">>)
  ELSE IF v.kind \in FloatKinds THEN FormatFloat(v.h)
  ELSE Decimal(v.n)

RECURSIVE Expand(_, _, _, _)
\* s from position from on, each token of toks replaced by its variable of vs
Expand(vs, s, toks, from) ==
  IF toks = <<>> THEN SubSeq(s, from, Len(s))
  ELSE SubSeq(s, from, toks[1].start - 1) \o Shown(vs[toks[1].name])
       \o Expand(vs, s, Tail(toks), toks[1].end + 1)

IsReplace == last.op = "replaceVars"

\* C13: when every variable a load token of s names is defined and holds a string,
\* an integer, an unsigned, a float or a bool, replaceVars(s) returns s with each
\* token, taken left to right without overlap, replaced by the variable as a string,
\* the text outside the tokens kept and the substituted text not scanned again; a
\* string without token is returned identical; the variable store is unchanged.
C13_Substitution ==
  IsReplace =>
    LET toks == LoadTokens(last.s, 1)
        vs == last.before.variables
    IN /\ r = last.before
       /\ (\A i \in 1..Len(toks) : toks[i].name \in DOMAIN vs /\ Scalar(vs[toks[i].name])) =>
            /\ last.ok
            /\ last.str = Expand(vs, last.s, toks, 1)
            /\ toks = <<>> => last.str = last.s

\* C13's case: "_x__y_" with x holding the text of a token and y a bool gives
\* "_y_true": two tokens replaced, the text put for the first left as it is
C13_Witness ==
  /\ IsReplace /\ last.s = <<"_", "x", "_", "_", "y", "_">>
  /\ X \in DOMAIN r.variables /\ r.variables[X] = Str(<<"_", "y", "_">>)
  /\ Y \in DOMAIN r.variables /\ r.variables[Y] = GoBool(TRUE)
  /\ last.ok /\ last.str = <<"_", "y", "_", "t", "r", "u", "e">>

\* the tokens of s whose variable is absent from vs or cannot stand in a string
BadTokens(vs, s) ==
  LET toks == LoadTokens(s, 1)
  IN { i \in 1..Len(toks) : toks[i].name \notin DOMAIN vs \/ ~Scalar(vs[toks[i].name]) }

\* the error of the leftmost of them
TokenError(vs, s) ==
  LET name == LoadTokens(s, 1)[SetMin(BadTokens(vs, s))].name
  IN IF name \notin DOMAIN vs
     THEN Errorf("variable %v is not defined", <<Str(name)>>)
     ELSE Errorf("variable %v of type %T cannot be using inside string", <<Str(name), vs[name]>>)

\* C14: replaceVars fails when a load token names a variable that is absent ('variable
\* <name> is not defined') or that holds a map, a sequence or nil ('variable <name> of
\* type <T> cannot be using inside string'), the leftmost such token giving the error;
\* it then returns no string and leaves the store unchanged, and that error is the
\* one a string literal and a Regexp report against a string actual and the one Test
\* reports, behind its own prefix and without invoking the handler, for its path, its
\* header names and values and its raw body.
C14_ReplaceErrors ==
  LET vs == last.before.variables
  IN /\ (IsReplace /\ BadTokens(vs, last.s) # {}) =>
          /\ ~last.ok /\ last.msg = TokenError(vs, last.s)
          /\ last.str = <<>> /\ r = last.before
     /\ (IsReplace /\ BadTokens(vs, last.s) = {}) => last.ok
     /\ ( /\ IsCompare /\ last.expected.type \in {"string", "Regexp"}
          /\ last.actual.kind = "string" /\ BadTokens(vs, last.expected.s) # {} ) =>
          /\ ~last.ok /\ last.msg = TokenError(vs, last.expected.s) /\ r = last.before
     /\ (IsTest /\ last.testcase.Request.Path # <<>>) =>
          LET req == last.testcase.Request
              names == { k \in DOMAIN req.Headers : BadTokens(vs, k) # {} }
              values == { k \in DOMAIN req.Headers :
                            \E i \in 1..Len(req.Headers[k]) : BadTokens(vs, req.Headers[k][i]) # {} }
              failed(prefix, str) ==
                /\ ~last.ok /\ ~last.invoked /\ r = last.before
                /\ last.msg = Errorf(prefix, <<>>) \o TokenError(vs, str)
          IN IF ~req.RawBody.isNil /\ BadTokens(vs, req.RawBody.data) # {}
             THEN failed("error while replacing variables in raw body. ", req.RawBody.data)
             ELSE IF BadTokens(vs, req.Path) # {}
             THEN failed("error while replacing variables in path. ", req.Path)
             ELSE IF names # {}
             THEN \E k \in names : failed("error while replacing variables in header name. ", k)
             ELSE IF values # {}
             THEN \E k \in values :
                    failed("error while replacing variables in header value. ",
                           req.Headers[k][SetMin({ i \in 1..Len(req.Headers[k]) :
                                                     BadTokens(vs, req.Headers[k][i]) # {} })])
             ELSE last.invoked

\* C14's case: the path "_x__y_" with x holding a map and y absent: Test reports the
\* error of x, the leftmost token, and does not invoke the handler
C14_Witness ==
  /\ IsTest /\ last.testcase.Request.Path = <<"_", "x", "_", "_", "y", "_">>
  /\ X \in DOMAIN last.before.variables /\ last.before.variables[X] = Map(EmptyMap)
  /\ Y \notin DOMAIN last.before.variables
  /\ ~last.ok /\ ~last.invoked /\ r = last.before
  /\ last.msg = Errorf("error while replacing variables in path. ", <<>>)
                \o Errorf("variable %v of type %T cannot be using inside string",
                          <<Str(X), Map(EmptyMap)>>)

(***************************************************************************)
(* SpecPre: Test on an engine whose handler, marshaler and unmarshaler     *)
(* have been set, to nil or not.  The setters are idempotent and leave the *)
(* count of the tests as it is.                                            *)
(***************************************************************************)
\* r.SetHttpHandler(handler)
SetHttpHandlerStep ==
  \E handler \in BOOLEAN :
    /\ steps < MaxSteps
    /\ r' = [r EXCEPT !.httpHandler = handler]
    /\ last' = [op |-> "SetHttpHandler", before |-> r]
    /\ UNCHANGED steps

\* r.SetMarshaler(marshaler)
SetMarshalerStep ==
  \E marshaler \in BOOLEAN :
    /\ steps < MaxSteps
    /\ r' = [r EXCEPT !.marshaler = marshaler]
    /\ last' = [op |-> "SetMarshaler", before |-> r]
    /\ UNCHANGED steps

\* r.SetUnmarshaler(unmarshaler)
SetUnmarshalerStep ==
  \E unmarshaler \in BOOLEAN :
    /\ steps < MaxSteps
    /\ r' = [r EXCEPT !.unmarshaler = unmarshaler]
    /\ last' = [op |-> "SetUnmarshaler", before |-> r]
    /\ UNCHANGED steps

\* the tests: with or without method and path, a path that loads a variable, a body
\* that is absent, marshalled, or cannot be marshalled
PreTestStep ==
  TestOp({ [BaseCase EXCEPT !.Request.Method = method, !.Request.Path = path,
                            !.Request.Body = body, !.Response.Object = object]
           : method \in {<<>>, <<"G", "E", "T">>}, path \in {<<>>, ApiCat, CatPath},
             body \in {Nil, Str(<<"a">>), Complex(1)}, object \in {Nil, StoreVar(CatId)} },
         { [StatusCode |-> 200, Header |-> Header(EmptyMap), Body |-> body]
           : body \in {<<>>, <<Quote>> \o D123 \o <<Quote>>} })

SpecPre ==
  Init /\ [][SetHttpHandlerStep \/ SetMarshalerStep \/ SetUnmarshalerStep \/ PreTestStep]_vars

\* C17: Test checks, in this order, the HTTP handler, the marshaler, the unmarshaler,
\* the Method and the Path, and returns the error of the first check that fails
\* without marshalling, substituting or invoking the handler, the variable store
\* unchanged; a nil marshaler is reported even when there is no body to marshal.
C17_Preconditions ==
  IsTest =>
    LET e == last.before
        req == last.testcase.Request
        failed(text) ==
          /\ ~last.ok /\ last.msg = Errorf(text, <<>>)
          /\ ~last.invoked /\ last.request = NoRequest /\ r = last.before
    IN IF ~e.httpHandler THEN failed("nil HTTP handler")
       ELSE IF ~e.marshaler THEN failed("nil marshaler")
       ELSE IF ~e.unmarshaler THEN failed("nil unmarshaler")
       ELSE IF req.Method = <<>> THEN failed("incomplete testcase. Missing HTTP method")
       ELSE IF req.Path = <<>> THEN failed("incomplete testcase. Missing URL path")
       ELSE last.msg \notin { Errorf(text, <<>>) :
                                text \in { "nil HTTP handler", "nil marshaler", "nil unmarshaler",
                                           "incomplete testcase. Missing HTTP method",
                                           "incomplete testcase. Missing URL path" } }

\* C17's case: marshaler and unmarshaler both nil, no body, no method: the nil
\* marshaler is what Test reports
C17_Witness ==
  /\ IsTest /\ last.before.httpHandler /\ ~last.before.marshaler /\ ~last.before.unmarshaler
  /\ IsNil(last.testcase.Request.Body) /\ last.testcase.Request.Method = <<>>
  /\ ~last.ok /\ last.msg = Errorf("nil marshaler", <<>>) /\ ~last.invoked

(***************************************************************************)
(* SpecHeaders: Test on an engine whose default headers have been set.     *)
(* Setting the default headers leaves the count of the tests as it is.     *)
(***************************************************************************)
XB == <<"X", "-", "B">>

\* r.SetDefaultHeaders(headers): nil, or none
SetDefaultHeadersStep ==
  \E headers \in {NilHeader, Header(EmptyMap)} :
    /\ steps < MaxSteps
    /\ r' = [r EXCEPT !.defaultHeaders = headers]
    /\ last' = [op |-> "SetDefaultHeaders", before |-> r, panic |-> FALSE]
    /\ UNCHANGED steps

\* r.AddDefaultHeader(name, value), each name given at most MaxLen values; on nil
\* default headers the assignment panics
AddDefaultHeaderStep ==
  \E name \in {<<"x", "-", "i", "d">>, XB}, value \in {<<"d">>} :
    /\ steps < MaxSteps
    /\ IF r.defaultHeaders.isNil
       THEN /\ r' = r
            /\ last' = [op |-> "AddDefaultHeader", before |-> r, panic |-> TRUE]
       ELSE /\ CanonicalMIMEHeaderKey(name) \in DOMAIN r.defaultHeaders.m
                 => Len(r.defaultHeaders.m[CanonicalMIMEHeaderKey(name)]) < MaxLen
            /\ r' = [r EXCEPT !.defaultHeaders = HeaderAdd(@, name, value)]
            /\ last' = [op |-> "AddDefaultHeader", before |-> r, panic |-> FALSE]
    /\ UNCHANGED steps

\* the tests: the headers of the request given under one, two or three names, two
\* of them spellings of one name, each with no value, one or two
HeadersTestStep ==
  TestOp({ [BaseCase EXCEPT !.Request.Headers = headers]
           : headers \in MapsOver({<<"x", "-", "i", "d">>, XId}, {<<>>, << <<"t">> >>})
                          \cup MapsOver({XId, XB}, {<< <<"t">>, <<"u">> >>}) },
         { [StatusCode |-> 200, Header |-> Header(EmptyMap), Body |-> <<>>] })

SpecHeaders == Init /\ [][SetDefaultHeadersStep \/ AddDefaultHeaderStep \/ HeadersTestStep]_vars

\* C18: the request Test sends carries every default header whose name the test case
\* does not give, with its default values, and under each name the test case gives
\* exactly the values of the test case; the default headers of the engine are the
\* same after the Test as before.
C18_HeaderMerge ==
  (IsTest /\ last.invoked) =>
    LET defaults == last.before.defaultHeaders.m
        given == last.testcase.Request.Headers
        sent == last.request.Header.m
    IN /\ \A k \in DOMAIN defaults :
            (\A g \in DOMAIN given : CanonicalMIMEHeaderKey(g) # k) =>
              k \in DOMAIN sent /\ sent[k] = defaults[k]
       /\ \A g \in DOMAIN given :
            IF given[g] = <<>> THEN CanonicalMIMEHeaderKey(g) \notin DOMAIN sent
            ELSE /\ CanonicalMIMEHeaderKey(g) \in DOMAIN sent
                 /\ sent[CanonicalMIMEHeaderKey(g)] = given[g]
       /\ r.defaultHeaders = last.before.defaultHeaders

(***************************************************************************)
(* SpecRegexp: RegexpVars against strings.                                 *)
(***************************************************************************)
\* expressions of one group, of two, of none, and one that does not compile
RegexpPatterns ==
  { <<"^", "(", "a", "*", ")", "b", "$">>, <<"(", "a", ")", "(", ".", "*", ")">>,
    <<"a", "b">>, <<"(", "a">> }

\* Vars: up to three of the indexes 0, 1, 2 named x, y or "a b", or the index -1
RegexpVarsMaps ==
  MapsOver({0, 1, 2}, {X, Y, <<"a", " ", "b">>}) \cup { [g \in {-1, 0} |-> X] }

RegexpExpecteds == { RegexpVars(regexp, names) : regexp \in RegexpPatterns, names \in RegexpVarsMaps }

RegexpActuals == { Str(s) : s \in SeqsUpTo({"a", "b"}) } \cup { GoInt(1) }

InitRegexp ==
  CompareInit({NewRehapt, SetVariable(NewRehapt, X, GoInt(1)).r}, RegexpExpecteds, RegexpActuals)

SpecRegexp == InitRegexp /\ [][CompareInput]_vars

IsRegexpVars == IsCompare /\ last.expected.type = "RegexpVars" /\ last.actual.kind = "string"

\* what FindStringSubmatch returns for the comparison made
Elements == FindStringSubmatch(last.expected.Regexp, last.actual.s)

\* the pattern of the comparison made compiles and matches
Matched == Compile(last.expected.Regexp).ok /\ Len(Elements) > 0

\* the requested index g is one of a group and its name is valid
Storable(g) ==
  g >= 0 /\ g < Len(Elements) /\ NameMatches(last.expected.Vars[g])

\* no other requested index has the name of g
Single(g) == \A g2 \in DOMAIN last.expected.Vars : g2 # g => last.expected.Vars[g2] # last.expected.Vars[g]

\* the capture of group g is stored under its name
Captured(g) ==
  /\ last.expected.Vars[g] \in DOMAIN r.variables
  /\ r.variables[last.expected.Vars[g]] = Str(Elements[g + 1])

\* the error of the requested index g that cannot be stored
RegexpVarsError(g) ==
  IF g >= Len(Elements)
  THEN Errorf("expected variable index %d overflow regexp group count of %d",
              <<GoInt(g), GoInt(Len(Elements))>>)
  ELSE IF g < 0 THEN Errorf("panic: runtime error: index out of range [%d]", <<GoInt(g)>>)
  ELSE Errorf("invalid variable name %v", <<Str(last.expected.Vars[g])>>)

NotInners ==
  { Nil, Str(<<"a">>), GoInt(1), Any, StoreVar(X), LoadVar(X), Str(<<"$", "y", "$">>),
    Regexp(<<"^", "a", "$">>), M(Map1(K, StoreVar(X))),
    S(<<StoreVar(X), Str(<<"a">>)>>), S(<<Str(<<"a">>), StoreVar(X)>>),
    Not(Str(<<"a">>)), Not(StoreVar(Y)) }

NotExpecteds == { Not(inner) : inner \in NotInners }

NotActuals ==
  { Nil, Str(<<"a">>), Str(<<"b">>), GoFloat64(2), Map(Map1(K, Str(<<"a">>))),
    Slice(<<Str(<<"a">>), Str(<<"b">>)>>), Slice(<<Str(<<"b">>), Str(<<"a">>)>>) }

InitNot ==
  CompareInit({NewRehapt, SetVariable(NewRehapt, X, Str(<<"a">>)).r}, NotExpecteds, NotActuals)

SpecNot == InitNot /\ [][CompareInput]_vars

IsNot == IsCompare /\ last.expected.type = "Not"

\* the verdicts and the engines compare(inner, actual) alone can leave
InnerOutcomes ==
  { <<o.ok, o.r>> : o \in compare(last.before, last.expected.Value, last.actual, <<>>) }

\* C20 as the spec has it: compare(Not(inner), actual) succeeds exactly when
\* compare(inner, actual) fails, and leaves the store compare(inner, actual) leaves,
\* for every actual.
C20_NotInvertsAlways == IsNot => <<~last.ok, r>> \in InnerOutcomes

\* C20: against an actual that is not null, compare(Not(inner), actual) succeeds
\* exactly when compare(inner, actual) fails and fails (with 'expected not inner, got
\* actual') exactly when it succeeds, and the engine it leaves is the one
\* compare(inner, actual) alone leaves; against a null actual it fails with
\* 'expected ... but got nil' whatever inner is, and stores nothing.
C20_NotInverts ==
  IsNot =>
    IF IsNil(last.actual)
    THEN /\ ~last.ok /\ r = last.before
         /\ last.msg = Errorf("expected %v but got nil", <<last.expected>>)
    ELSE /\ <<~last.ok, r>> \in InnerOutcomes
         /\ ~last.ok => last.msg = Errorf("expected not %v, got %v",
                                           <<last.expected.Value, last.actual>>)

\* C20's case: Not of a slice that stores its first element and fails on its second
\* succeeds and keeps the variable stored
C20_Witness ==
  /\ IsNot /\ last.ok
  /\ last.expected = Not(S(<<StoreVar(X), Str(<<"a">>)>>))
  /\ last.actual = Slice(<<Str(<<"a">>), Str(<<"b">>)>>)
  /\ last.before.variables = EmptyMap
  /\ r.variables = Map1(X, Str(<<"a">>))

(***************************************************************************)
(* SpecLogic: And and Or of up to MaxLen + 1 comparers against decoded     *)
(* values.                                                                 *)
(***************************************************************************)
\* the comparers: values, matchers that store and load, a slice that stores its
\* first element before its second fails, and nil
Comparers ==
  { Nil, Str(<<"a">>), Str(<<"b">>), StoreVar(X), LoadVar(X), S(<<StoreVar(Y), Str(<<"a">>)>>) }

ComparerLists == UNION { [1..n -> Comparers] : n \in 0..(MaxLen + 1) }

LogicExpecteds == { And(cmp) : cmp \in ComparerLists } \cup { Or(cmp) : cmp \in ComparerLists }

LogicActuals == { Nil, Str(<<"a">>), Str(<<"b">>), Slice(<<Str(<<"b">>), Str(<<"b">>)>>) }

InitLogic ==
  CompareInit({NewRehapt, SetVariable(NewRehapt, X, Str(<<"b">>)).r}, LogicExpecteds, LogicActuals)

SpecLogic == InitLogic /\ [][CompareInput]_vars

IsAnd == IsCompare /\ IsCompareFn(last.expected) /\ last.expected.fn = "And"

\* the engines that the comparers 1..i of the comparison made can leave when each of
\* them succeeds in its turn
Passed[i \in 0..(MaxLen + 2)] ==
  IF i = 0 THEN {last.before}
  ELSE IF i > Len(last.expected.cmp) THEN {}
  ELSE UNION { { o.r : o \in { p \in compare(e, last.expected.cmp[i], last.actual, <<>>) : p.ok } }
               : e \in Passed[i - 1] }

\* the verdict, the error and the engine are those of the comparers taken in order
\* up to the first that fails
FirstFailure ==
  IF last.ok THEN r \in Passed[Len(last.expected.cmp)]
  ELSE \E i \in 1..Len(last.expected.cmp) :
         \E e \in Passed[i - 1] :
           \E o \in compare(e, last.expected.cmp[i], last.actual, <<>>) :
             ~o.ok /\ last.msg = o.msg /\ r = o.r

\* C21 as the spec has it: compare(And(c1..cn), actual) compares c1, c2, ... in that
\* order against actual, each on the store the one before left; it succeeds iff every
\* ci succeeds, and else returns the error of the first ci that fails and leaves the
\* store that ci left, the later comparers not being evaluated; for every actual.
C21_AndAlways == IsAnd => FirstFailure

\* C21: against an actual that is not null, compare(And(c1..cn), actual) compares
\* c1, c2, ... in that order, succeeds iff every ci succeeds, returns the error of
\* the first ci that fails and leaves the store as c1..ci left it, c(i+1)..cn not
\* being evaluated; against a null actual it fails with 'expected ... but got nil'
\* and no ci is evaluated.
C21_And ==
  IsAnd =>
    IF IsNil(last.actual)
    THEN /\ ~last.ok /\ r = last.before
         /\ last.msg = Errorf("expected %v but got nil", <<last.expected>>)
         /\ Len(last.log) = 0
    ELSE FirstFailure

\* C21's case: And(StoreVar(x), "a", a slice storing y) against "b" fails on "a",
\* with x stored by the first comparer and y not stored by the third
C21_Witness ==
  /\ IsAnd /\ ~last.ok
  /\ last.expected = And(<<StoreVar(X), Str(<<"a">>), S(<<StoreVar(Y), Str(<<"a">>)>>)>>)
  /\ last.actual = Str(<<"b">>)
  /\ last.before.variables = EmptyMap
  /\ r.variables = Map1(X, Str(<<"b">>))
  /\ last.msg = Errorf("strings does not match. Expected '%v', got '%v'",
                        <<Str(<<"a">>), Str(<<"b">>)>>)

IsOr == IsCompare /\ IsCompareFn(last.expected) /\ last.expected.fn = "Or"

\* the engine and the errors that the comparers 1..i of the comparison made can
\* leave when every one of them is evaluated in its turn
Evaluated[i \in 0..(MaxLen + 2)] ==
  IF i = 0 THEN {<<last.before, <<>> >>}
  ELSE IF i > Len(last.expected.cmp) THEN {}
  ELSE UNION { { <<o.r, IF o.ok THEN run[2] ELSE Append(run[2], o.msg)>>
                 : o \in compare(run[1], last.expected.cmp[i], last.actual, <<>>) }
               : run \in Evaluated[i - 1] }

\* the verdict, the error and the engine are those of all the comparers evaluated in
\* order: an error, the errors joined by newlines, only if all have failed
AllEvaluated ==
  \E run \in Evaluated[Len(last.expected.cmp)] :
    /\ r = run[1]
    /\ last.ok <=> Len(run[2]) < Len(last.expected.cmp)
    /\ last.ok => last.msg = <<>>
    /\ ~last.ok => last.msg = Join(run[2])

\* C22 as the spec has it: compare(Or(c1..cn), actual) evaluates every ci in order,
\* also after one has succeeded; it fails iff all n fail, with the n errors joined by
\* newlines in the order of evaluation, and else succeeds and reports no error; for
\* every actual.
C22_OrAlways == IsOr => AllEvaluated

\* C22: against an actual that is not null, compare(Or(c1..cn), actual) evaluates
\* every ci in order, also after one has succeeded; it fails iff all n fail, with the
\* n errors joined by newlines in the order of evaluation, and else succeeds and
\* reports no error; against a null actual it fails with 'expected ... but got nil'
\* and no ci is evaluated.
C22_Or ==
  IsOr =>
    IF IsNil(last.actual)
    THEN /\ ~last.ok /\ r = last.before
         /\ last.msg = Errorf("expected %v but got nil", <<last.expected>>)
         /\ Len(last.log) = 0
    ELSE AllEvaluated

\* C22's case: Or("a", StoreVar(x)) against "a" succeeds on its first comparer and
\* has evaluated the second, which stored x
C22_Witness ==
  /\ IsOr /\ last.ok
  /\ last.expected = Or(<<Str(<<"a">>), StoreVar(X)>>)
  /\ last.actual = Str(<<"a">>)
  /\ last.before.variables = EmptyMap
  /\ r.variables = Map1(X, Str(<<"a">>))

(***************************************************************************)
(* SpecDispatch: one expected value of every registered kind and type, and *)
(* of kinds and types that are not registered, against decoded values.     *)
(***************************************************************************)
\* struct{}{}: a struct of a type that is not registered
EmptyStruct == [kind |-> "struct", type |-> "struct {}"]

DispatchExpecteds ==
  { Not(Str(<<"a">>)), NumberDelta(2, 1), RegexpVars(<<"a">>, [g \in {0} |-> X]),
    UnsortedS(<<Str(<<"a">>)>>), S(<<Str(<<"a">>)>>), Slice(<<Str(<<"a">>)>>),
    PartialM(Map1(K, Str(<<"a">>))), M(Map1(K, Str(<<"a">>))), Map(Map1(K, Str(<<"a">>))),
    Any, StoreVar(X), LoadVar(X), Regexp(<<"^", "a", "$">>), Str(<<"a">>), GoBool(TRUE),
    Complex(1), EmptyStruct }
  \cup { [kind |-> k, type |-> k, n |-> 1] : k \in IntKinds \cup UintKinds }
  \cup { [kind |-> k, type |-> k, h |-> 2] : k \in FloatKinds }

DispatchActuals ==
  { Nil, Str(<<"a">>), GoFloat64(2), GoBool(TRUE), Map(Map1(K, Str(<<"a">>))),
    Slice(<<Str(<<"a">>)>>) }

InitDispatch ==
  CompareInit({NewRehapt, SetVariable(NewRehapt, X, Str(<<"a">>)).r}, DispatchExpecteds, DispatchActuals)

SpecDispatch == InitDispatch /\ [][CompareInput]_vars

\* the comparator of a type that has one of its own
OfType(type) ==
  CASE type = "Not" -> "notCompare"
    [] type = "NumberDelta" -> "numberDeltaCompare"
    [] type = "RegexpVars" -> "regexpVarsCompare"
    [] type = "UnsortedS" -> "unsortedSliceCompare"
    [] type = "PartialM" -> "partialMapCompare"
    [] type = "any" -> "anyCompare"
    [] type = "StoreVar" -> "storeVarCompare"
    [] type = "LoadVar" -> "loadVarCompare"
    [] type = "Regexp" -> "regexpCompare"
    [] OTHER -> ""

\* the generic comparator of a kind
OfKind(kind) ==
  CASE kind = "slice" -> "sliceCompare"
    [] kind = "map" -> "mapCompare"
    [] kind = "string" -> "stringCompare"
    [] kind = "bool" -> "boolCompare"
    [] kind \in IntKinds -> "intCompare"
    [] kind \in UintKinds -> "uintCompare"
    [] kind \in FloatKinds -> "floatCompare"
    [] OTHER -> ""

\* the comparator the claim gives an expected value: that of its type, else the
\* generic one of its kind, else none
Selected(expected) ==
  IF OfType(expected.type) # "" THEN OfType(expected.type) ELSE OfKind(expected.kind)

\* in the registry no generic comparator precedes a comparator of a type of its kind
SpecificFirst ==
  \A i, j \in 1..Len(comparators) :
    (comparators[i].ExpectedKind = comparators[j].ExpectedKind
       /\ comparators[i].ExpectedType = "nil" /\ comparators[j].ExpectedType # "nil") => j < i

\* the comparison made invoked the first comparator of the registry that matches the
\* expected value, the one of its type before the generic one of its kind, or failed
\* with 'unhandled type' when there is none
Dispatched ==
  /\ SpecificFirst
  /\ IF Selected(last.expected) = ""
     THEN /\ Matching(last.expected) = {}
          /\ ~last.ok /\ r = last.before /\ last.log = <<>>
          /\ last.msg = Errorf("unhandled type %T", <<last.expected>>)
     ELSE /\ Matching(last.expected) # {}
          /\ \A i \in Matching(last.expected) :
               (\A j \in Matching(last.expected) : i <= j) =>
                 comparators[i].Compare = Selected(last.expected)
          /\ Len(last.log) > 0
          /\ last.log[1] = [path |-> <<>>, cmp |-> Selected(last.expected)]

IsDispatch == IsCompare /\ ~IsNil(last.expected) /\ ~IsCompareFn(last.expected)

\* C24 as the spec has it: for every expected value that is not null compare invokes
\* the first comparator in registration order whose kind is that of the expected value
\* and whose type is nil or its exact type, every comparator of a type preceding the
\* generic one of its kind; an expected value no comparator matches fails with
\* 'unhandled type <T>' whatever the actual is.
C24_DispatchAlways == IsDispatch => Dispatched

\* C24: the same for every actual that is not null; against a null actual no
\* comparator is invoked and the comparison fails with 'expected ... but got nil',
\* also for an expected value no comparator matches.
C24_Dispatch ==
  IsDispatch =>
    IF IsNil(last.actual)
    THEN /\ ~last.ok /\ r = last.before /\ last.log = <<>>
         /\ last.msg = Errorf("expected %v but got nil", <<last.expected>>)
    ELSE Dispatched

\* C24's case: an UnsortedS, which the generic comparator of the slices matches as
\* well, went to unsortedSliceCompare
C24_Witness ==
  /\ IsDispatch /\ last.expected = UnsortedS(<<Str(<<"a">>)>>)
  /\ last.actual = Slice(<<Str(<<"a">>)>>) /\ last.ok
  /\ Cardinality(Matching(last.expected)) = 2
  /\ last.log[1].cmp = "unsortedSliceCompare"

(***************************************************************************)
(* SpecLoad: compare of a LoadVar followed call by call, on stores whose   *)
(* values may be LoadVar values themselves.  The stack holds MaxFrames     *)
(* calls of loadVarCompare, more than a chain of LoadVar values through    *)
(* the two variables of the model needs unless it comes back to a name.    *)
(***************************************************************************)
Comparing == last.op = "comparing"

\* r.SetVariable(name, value) between two comparisons
LoadSetVariableStep ==
  /\ ~Comparing /\ last.op # "stack overflow"
  /\ SetVariableOp({X, Y}, {Str(<<"a">>), LoadVar(X), LoadVar(Y)})

\* r.compare(LoadVar(name), actual) is called
LoadCompareCall ==
  /\ ~Comparing /\ last.op # "stack overflow"
  /\ \E name \in {X, Y}, actual \in {Str(<<"a">>), Str(<<"b">>)} :
       last' = [op |-> "comparing", top |-> LoadVar(name), expected |-> LoadVar(name),
                actual |-> actual, before |-> r, frames |-> 0]
  /\ UNCHANGED <<r, steps>>

\* compare has dispatched a LoadVar to loadVarCompare, which calls compare on the
\* value of the variable: one more frame
LoadVarCall ==
  /\ Comparing /\ last.expected.type = "LoadVar" /\ last.frames < MaxFrames
  /\ last' = [last EXCEPT !.expected = GetVariable(r, last.expected.s), !.frames = @ + 1]
  /\ UNCHANGED <<r, steps>>

\* the same with the stack full: the runtime ends the program (fatal error: stack
\* overflow), compare does not return
StackOverflow ==
  /\ Comparing /\ last.expected.type = "LoadVar" /\ last.frames = MaxFrames
  /\ last' = [op |-> "stack overflow", expected |-> last.top, actual |-> last.actual,
              before |-> last.before]
  /\ UNCHANGED <<r, steps>>

\* the innermost compare is on a value that is no LoadVar: it returns, and every
\* loadVarCompare above it returns its error
LoadCompareReturn ==
  /\ Comparing /\ last.expected.type # "LoadVar"
  /\ \E o \in compare(r, last.expected, last.actual, <<>>) :
       /\ r' = o.r
       /\ last' = [op |-> "compare", expected |-> last.top, actual |-> last.actual,
                   before |-> last.before, ok |-> o.ok, msg |-> o.msg, log |-> o.log]
  /\ UNCHANGED steps

NextLoad ==
  LoadSetVariableStep \/ LoadCompareCall \/ LoadVarCall \/ StackOverflow \/ LoadCompareReturn

SpecLoad == Init /\ [][NextLoad]_vars

\* C26: compare(expected, actual) terminates on every reachable store, also when
\* SetVariable has put under a name a LoadVar of that name, or LoadVar values that
\* form a cycle: no comparison ends the program with its stack full.
C26_Terminates == last.op # "stack overflow"

(***************************************************************************)
(* SpecSiblings: sequences, maps and RegexpVars whose elements store and   *)
(* load variables.                                                         *)
(***************************************************************************)
SiblingValues ==
  { Str(<<"a">>), StoreVar(X), StoreVar(Y), Str(<<"$", "x", "$">>), Str(<<"_", "x", "_">>),
    LoadVar(X) }

SiblingExpecteds ==
  { S(items) : items \in SeqsUpTo(SiblingValues) }
  \cup { M(m) : m \in MapsOver({K, L}, SiblingValues) }
  \cup { PartialM(m) : m \in MapsOver({K, L}, SiblingValues) }
  \cup { RegexpVars(<<"(", "a", ")", "(", ".", "*", ")">>, names)
         : names \in MapsOver({1, 2}, {X, Y}) }

SiblingActuals ==
  { Slice(items) : items \in SeqsUpTo({Str(<<"a">>), Str(<<"b">>)}) }
  \cup { Map(m) : m \in MapsOver({K, L}, {Str(<<"a">>), Str(<<"b">>)}) }
  \cup { Str(<<"a", "b">>) }

InitSiblings ==
  CompareInit({NewRehapt, SetVariable(NewRehapt, Y, Str(<<"c">>)).r}, SiblingExpecteds, SiblingActuals)

SpecSiblings == InitSiblings /\ [][CompareInput]_vars

\* the expected element v stores its actual under name
Stores(v, name) == v = StoreVar(name) \/ v = Str(<<"$">> \o name \o <<"$">>)

\* the comparison made is one of a sequence or a map that has compared its elements
ElementsCompared ==
  /\ IsCompare /\ last.expected.kind = last.actual.kind
  /\ \/ /\ last.expected.kind = "slice"
        /\ Len(last.expected.items) = Len(last.actual.items)
     \/ /\ last.expected.kind = "map"
        /\ last.expected.type = "M" =>
             Cardinality(DOMAIN last.expected.m) = Cardinality(DOMAIN last.actual.m)

\* the actual elements whose expected sibling stores under name: of a sequence the
\* last one, of a map any of them
StoredUnder(name) ==
  IF last.expected.kind = "slice"
  THEN LET at == { i \in 1..Len(last.expected.items) : Stores(last.expected.items[i], name) }
       IN IF at = {} THEN {} ELSE { last.actual.items[SetMax(at)] }
  ELSE { last.actual.m[k] : k \in { j \in DOMAIN last.expected.m \cap DOMAIN last.actual.m :
                                      Stores(last.expected.m[j], name) } }

\* C27 as the spec has it: when compare returns an error the variable store is the
\* same as before the call.
C27_ErrorLeavesStore == (IsCompare /\ ~last.ok) => r = last.before

\* C27: when compare returns an error the variable store is not put back: a sequence
\* or a map compares every element, also after one has failed, and every element
\* that stores a variable has stored its actual; the names no element stores under
\* are as before the call, and so is the whole store when the error is one of kinds
\* or sizes, met before any element is compared.
C27_SiblingsKept ==
  (IsCompare /\ ~last.ok /\ last.expected.kind \in {"slice", "map"}) =>
    IF ~ElementsCompared THEN r = last.before
    ELSE \A name \in {X, Y} :
           IF StoredUnder(name) = {}
           THEN GetVariable(r, name) = GetVariable(last.before, name)
           ELSE name \in DOMAIN r.variables /\ r.variables[name] \in StoredUnder(name)

\* C27's case: {StoreVar(x), "a"} against ["b", "b"] fails on its second element and
\* x holds "b"
C27_Witness ==
  /\ IsCompare /\ ~last.ok
  /\ last.expected = S(<<StoreVar(X), Str(<<"a">>)>>)
  /\ last.actual = Slice(<<Str(<<"b">>), Str(<<"b">>)>>)
  /\ last.before.variables = EmptyMap
  /\ r.variables = Map1(X, Str(<<"b">>))

\* C28: for a map, a PartialM and the Vars of a RegexpVars, the verdict and the
\* variable store do not depend on the order in which the keys are visited: every
\* order gives the verdict and the store of the comparison made.
C28_OrderIndependent ==
  (IsCompare /\ last.expected.type \in {"M", "PartialM", "RegexpVars"}) =>
    \A o \in compare(last.before, last.expected, last.actual, <<>>) :
      o.ok = last.ok /\ o.r = r


(***************************************************************************)
(* SpecOrder: tests whose request loads variables in the raw body, the     *)
(* path or a header, and whose expected headers and body store and load    *)
(* variables, on engines where x and y are set or not.                     *)
(***************************************************************************)
LoadToken(name) == <<"_">> \o name \o <<"_">>

OrderSetVariableStep == SetVariableOp({X, Y}, {Str(<<"a">>)})

OrderTestCases ==
  { [BaseCase EXCEPT !.Request.Path = path, !.Request.RawBody = raw,
                     !.Request.Headers = headers,
                     !.Response.Headers = expectedHeaders, !.Response.Object = object]
    : path \in {<<"/">>, <<"/">> \o LoadToken(X)},
      raw \in {NoReader, Reader(LoadToken(Y), FALSE)},
      headers \in {EmptyMap, Map1(LoadToken(X), << <<"v">> >>), Map1(XB, <<LoadToken(Y)>>)},
      expectedHeaders \in {Nil, ExpectXId(StoreVar(X)), ExpectXId(Str(LoadToken(Y)))},
      object \in {Str(LoadToken(X)), StoreVar(Y)} }

OrderResponses ==
  { [StatusCode |-> 200, Header |-> Header(Map1(XId, <<v>>)),
     Body |-> <<Quote, "a", Quote>>] : v \in {<<"a">>, <<"b">>} }

OrderTestStep == TestOp(OrderTestCases, OrderResponses)

SpecOrder == Init /\ [][OrderSetVariableStep \/ OrderTestStep]_vars

\* the substitutions into the request of the last Test that fail on the store as it
\* was before the call
RawBodyFails ==
  /\ ~last.testcase.Request.RawBody.isNil
  /\ ~replaceVars(last.before, last.testcase.Request.RawBody.data).ok

PathFails == ~replaceVars(last.before, last.testcase.Request.Path).ok

HeaderFails ==
  \E k \in DOMAIN last.testcase.Request.Headers :
    \/ ~replaceVars(last.before, k).ok
    \/ \E i \in 1..Len(last.testcase.Request.Headers[k]) :
         ~replaceVars(last.before, last.testcase.Request.Headers[k][i]).ok

\* the request that carries the substitutions made on the store before the call
SubstitutedRequest ==
  LET req == last.testcase.Request
  IN /\ last.request.Path = replaceVars(last.before, req.Path).str
     /\ last.request.Body = IF req.RawBody.isNil THEN <<>>
                            ELSE replaceVars(last.before, req.RawBody.data).str
     /\ \A k \in DOMAIN req.Headers :
          LET name == CanonicalMIMEHeaderKey(replaceVars(last.before, k).str)
          IN /\ name \in DOMAIN last.request.Header.m
             /\ last.request.Header.m[name] =
                  [i \in 1..Len(req.Headers[k]) |->
                     replaceVars(last.before, req.Headers[k][i]).str]

\* the comparisons of the response: the headers on the store before the call, then
\* the body on the store the headers comparison left
HeadersThenBody ==
  LET res == last.testcase.Response
      headers == IF IsNil(res.Headers) THEN {[ok |-> TRUE, r |-> last.before]}
                 ELSE { [ok |-> o.ok, r |-> o.r]
                        : o \in compare(last.before, res.Headers,
                                        HeaderValue(last.response.Header), <<>>) }
  IN \E h \in headers :
       /\ h.ok = (last.headersError = NoError)
       /\ \E b \in compare(h.r, res.Object, Unmarshal(last.response.Body).value, <<>>) :
            /\ b.msg = last.bodyError
            /\ b.r = r

\* C29: the substitutions into the request (raw body, then path, then header names
\* and values) read the store as it is before the call, and the first that fails
\* aborts the call before the handler is invoked; the response headers are compared
\* on that store and the body on the store the headers comparison left, so that a
\* variable stored by the headers is loaded by the body and a variable stored by the
\* body is seen neither by the headers nor by the request
C29_TestOrder ==
  IsTest =>
    /\ (RawBodyFails \/ PathFails \/ HeaderFails) => (~last.invoked /\ ~last.ok /\ r = last.before)
    /\ RawBodyFails =>
         last.msg = Wrap("error while replacing variables in raw body. ",
                         replaceVars(last.before, last.testcase.Request.RawBody.data).msg)
    /\ (~RawBodyFails /\ PathFails) =>
         last.msg = Wrap("error while replacing variables in path. ",
                         replaceVars(last.before, last.testcase.Request.Path).msg)
    /\ ~(RawBodyFails \/ PathFails \/ HeaderFails) => last.invoked
    /\ last.invoked => (SubstitutedRequest /\ HeadersThenBody)
    /\ ( /\ last.invoked
         /\ last.testcase.Response.Headers = ExpectXId(StoreVar(X))
         /\ last.testcase.Response.Object = Str(LoadToken(X))
         /\ last.response.Header.m[XId] = << <<"a">> >> ) => last.bodyError = NoError
    /\ ( /\ last.invoked
         /\ last.testcase.Response.Headers = ExpectXId(Str(LoadToken(Y)))
         /\ last.testcase.Response.Object = StoreVar(Y)
         /\ Y \notin DOMAIN last.before.variables )
         => (last.headersError # NoError /\ Y \in DOMAIN r.variables)

\* a Test on an engine without x whose expected headers store x and whose expected
\* body loads it has passed
C29_Witness ==
  /\ IsTest /\ last.invoked /\ last.ok
  /\ X \notin DOMAIN last.before.variables
  /\ last.testcase.Response.Headers = ExpectXId(StoreVar(X))
  /\ last.testcase.Response.Object = Str(LoadToken(X))


(***************************************************************************)
(* SpecWrap: signed and unsigned integers of 64 bits against each other,   *)
(* the unsigned ones with the top bit set or not.                          *)
(***************************************************************************)
\* the integers of every 64-bit kind; an unsigned one built from a negative n has
\* its top bit set and is n + 2^64
WrapIntegers ==
  { GoInt(n) : n \in (-MaxInt)..MaxInt } \cup { GoInt64(n) : n \in (-MaxInt)..MaxInt }
  \cup { GoUint(n) : n \in (-MaxInt)..MaxInt } \cup { GoUint64(n) : n \in (-MaxInt)..MaxInt }

InitWrap == CompareInit({NewRehapt}, WrapIntegers, WrapIntegers)

SpecWrap == InitWrap /\ [][CompareInput]_vars

\* the number an integer value denotes, the unsigned ones as a pair <<top bit, rest>>
\* standing for top bit * 2^64 + rest
Denotes(v) ==
  IF v.kind \in UintKinds /\ v.n < 0 THEN <<1, v.n>> ELSE <<0, v.n>>

\* C30: a signed integer against an unsigned one, or an unsigned against a signed,
\* compares equal only when both denote the same non-negative number; a negative
\* signed value never equals an unsigned value
C30_NoWrapAround ==
  ( /\ IsCompare /\ last.ok
    /\ \/ last.expected.kind \in IntKinds /\ last.actual.kind \in UintKinds
       \/ last.expected.kind \in UintKinds /\ last.actual.kind \in IntKinds )
    => /\ Denotes(last.expected) = Denotes(last.actual)
       /\ last.expected.n >= 0

====
